---- MODULE Spec2Model ----
(***************************************************************************)
(* A model of the prediction engine of OvoTime                              *)
(* (src/src/lib/calculations/skua-formulas.ts, the per-species quadratic    *)
(* generation, lines 246-561).                                              *)
(*                                                                          *)
(* The engine computes on JavaScript numbers, i.e. IEEE-754 binary64        *)
(* values.  Several of its decisions are comparisons of rounded results     *)
(* against exact limits (root <= 35, density > 2.0), so the numbers are     *)
(* modelled bit for bit: a number is a record                               *)
(*     [k |-> "fin" | "inf" | "nan", s |-> sign, m |-> significand,         *)
(*      e |-> exponent]            with value (-1)^s * m * 2^e,             *)
(* and every arithmetic operator rounds to nearest, ties to even, as the    *)
(* hardware does.  Significands are naturals of any size, kept as           *)
(* little-endian sequences of 15-bit limbs, because the checker's integers  *)
(* are 32 bits wide.                                                        *)
(***************************************************************************)
EXTENDS Integers, Sequences, FiniteSets, TLC

(***************************************************************************)
(* Naturals of any size                                                     *)
(***************************************************************************)
LimbBits == 5 * 3
Limb == 2 ^ LimbBits

IMax(a, b) == IF a >= b THEN a ELSE b
IMin(a, b) == IF a <= b THEN a ELSE b

RECURSIVE NTrim(_)
NTrim(x) ==
  IF x = <<>> THEN x
  ELSE IF x[Len(x)] = 0 THEN NTrim(SubSeq(x, 1, Len(x) - 1)) ELSE x

RECURSIVE NFromInt(_)
NFromInt(n) == IF n = 0 THEN <<>> ELSE <<n % Limb>> \o NFromInt(n \div Limb)

RECURSIVE NAddC(_, _, _)
NAddC(x, y, c) ==
  IF x = <<>> /\ y = <<>> THEN (IF c = 0 THEN <<>> ELSE <<c>>)
  ELSE LET a == IF x = <<>> THEN 0 ELSE Head(x)
           b == IF y = <<>> THEN 0 ELSE Head(y)
           t == a + b + c
       IN <<t % Limb>> \o NAddC(IF x = <<>> THEN x ELSE Tail(x),
                                 IF y = <<>> THEN y ELSE Tail(y),
                                 t \div Limb)

NAdd(x, y) == NAddC(x, y, 0)

\* x - y - c for x >= y + c, limb by limb with a borrow
RECURSIVE NSubB(_, _, _)
NSubB(x, y, c) ==
  IF x = <<>> THEN <<>>
  ELSE LET b == IF y = <<>> THEN 0 ELSE Head(y)
           t == Head(x) - b - c
       IN <<(t + Limb) % Limb>> \o NSubB(Tail(x),
                                          IF y = <<>> THEN y ELSE Tail(y),
                                          IF t < 0 THEN 1 ELSE 0)

NSub(x, y) == NTrim(NSubB(x, y, 0))

\* -1, 0 or 1, comparing limbs i, i-1, ..., 1 of two naturals of equal length
RECURSIVE NCmpAt(_, _, _)
NCmpAt(x, y, i) ==
  IF i = 0 THEN 0
  ELSE IF x[i] < y[i] THEN -1
  ELSE IF x[i] > y[i] THEN 1
  ELSE NCmpAt(x, y, i - 1)

NCmp(x, y) ==
  IF Len(x) < Len(y) THEN -1
  ELSE IF Len(x) > Len(y) THEN 1
  ELSE NCmpAt(x, y, Len(x))

\* x * k + c for a limb-sized k
RECURSIVE NMulS(_, _, _)
NMulS(x, k, c) ==
  IF x = <<>> THEN (IF c = 0 THEN <<>> ELSE <<c>>)
  ELSE LET t == Head(x) * k + c
       IN <<t % Limb>> \o NMulS(Tail(x), k, t \div Limb)

RECURSIVE NMul(_, _)
NMul(x, y) ==
  IF x = <<>> \/ y = <<>> THEN <<>>
  ELSE LET r == NMul(x, Tail(y))
       IN NAdd(NTrim(NMulS(x, Head(y), 0)), IF r = <<>> THEN r ELSE <<0>> \o r)

NShl(x, n) ==
  IF x = <<>> THEN x
  ELSE [i \in 1..(n \div LimbBits) |-> 0] \o NMulS(x, 2 ^ (n % LimbBits), 0)

NShr(x, n) ==
  LET q == n \div LimbBits
      p == 2 ^ (n % LimbBits)
  IN IF q >= Len(x) THEN <<>>
     ELSE LET y == SubSeq(x, q + 1, Len(x))
          IN NTrim([i \in 1..Len(y) |->
                      (y[i] \div p)
                      + (IF i < Len(y) THEN (y[i + 1] % p) * (Limb \div p) ELSE 0)])

\* whether x mod 2^n is not zero
NLowNonzero(x, n) ==
  LET q == n \div LimbBits
      p == 2 ^ (n % LimbBits)
  IN \/ \E i \in 1..IMin(q, Len(x)) : x[i] # 0
     \/ (q < Len(x) /\ x[q + 1] % p # 0)

\* bit i (bit 0 is the lowest)
NBit(x, i) ==
  LET q == i \div LimbBits
  IN IF q >= Len(x) THEN 0 ELSE (x[q + 1] \div (2 ^ (i % LimbBits))) % 2

RECURSIVE IntBitLen(_)
IntBitLen(n) == IF n = 0 THEN 0 ELSE 1 + IntBitLen(n \div 2)

NBitLen(x) ==
  IF x = <<>> THEN 0 ELSE LimbBits * (Len(x) - 1) + IntBitLen(x[Len(x)])

NIsOdd(x) == x # <<>> /\ x[1] % 2 = 1

RECURSIVE NPow10(_)
NPow10(k) == IF k = 0 THEN <<1>> ELSE NTrim(NMulS(NPow10(k - 1), 10, 0))

\* one step of restoring division by d on the pair <<quotient, remainder>>
NDivStep(st, d) ==
  LET r2 == NMulS(st[2], 2, 0)
  IN IF NCmp(r2, d) >= 0
     THEN <<NMulS(st[1], 2, 1), NSub(r2, d)>>
     ELSE <<NMulS(st[1], 2, 0), r2>>

\* n >= 1 steps of it.  The evaluator passes arguments unevaluated, so the
\* first half is computed (h = h) before the second half starts from it:
\* that and halving n keep the evaluation shallow
RECURSIVE NDivSteps(_, _, _)
NDivSteps(st, d, n) ==
  IF n = 1 THEN NDivStep(st, d)
  ELSE LET h == NDivSteps(st, d, n \div 2)
       IN IF h = h THEN NDivSteps(h, d, n - (n \div 2)) ELSE h

\* one step of the square root of x, two bits of x at a time, on the triple
\* <<root, remainder, p>>: p is the pair of bits to take in, a pair of
\* zeros once p < 0
NSqrtStep(st, x) ==
  LET p == st[3]
      pair == IF p < 0 THEN 0 ELSE 2 * NBit(x, 2 * p + 1) + NBit(x, 2 * p)
      rem2 == NMulS(st[2], 4, pair)
      trial == NMulS(st[1], 4, 1)
  IN IF NCmp(rem2, trial) >= 0
     THEN <<NMulS(st[1], 2, 1), NSub(rem2, trial), p - 1>>
     ELSE <<NMulS(st[1], 2, 0), rem2, p - 1>>

RECURSIVE NSqrtSteps(_, _, _)
NSqrtSteps(st, x, n) ==
  IF n = 1 THEN NSqrtStep(st, x)
  ELSE LET h == NSqrtSteps(st, x, n \div 2)
       IN IF h = h THEN NSqrtSteps(h, x, n - (n \div 2)) ELSE h

(***************************************************************************)
(* JavaScript numbers (IEEE-754 binary64, round to nearest, ties to even)   *)
(***************************************************************************)
MantBits == 52 + 1
MinExp == 0 - 1074
MaxExp == 1023 - 52

NaN == [k |-> "nan", s |-> 0, m |-> <<>>, e |-> 0]
Infinity(s) == [k |-> "inf", s |-> s, m |-> <<>>, e |-> 0]
Zero(s) == [k |-> "fin", s |-> s, m |-> <<>>, e |-> 0]

IsNaN(x) == x.k = "nan"
IsZero(x) == x.k = "fin" /\ x.m = <<>>
Number_isFinite(x) == x.k = "fin"

\* const name = value; rest -- the value is computed once, where it is bound
Bind(value, rest(_)) == rest(value)

\* the finite number (-1)^s * m * 2^e of a significand already rounded
Finite(s, m, e) ==
  IF m = <<>> THEN Zero(s)
  ELSE IF e > MaxExp THEN Infinity(s)
  ELSE [k |-> "fin", s |-> s, m |-> m, e |-> e]

\* (-1)^s * (n + f) * 2^e rounded to a number, 0 <= f < 1 and f # 0 iff sticky
Pack(s, n, e, sticky) ==
  IF n = <<>> THEN Zero(s)
  ELSE
    Bind(NBitLen(n), LAMBDA len :
    Bind(IMax(len - MantBits, MinExp - e), LAMBDA sh :
      IF sh <= 0
      THEN Bind(IMin(MantBits - len, e - MinExp), LAMBDA up :
             Finite(s, NShl(n, up), e - up))
      ELSE Bind(NShr(n, sh), LAMBDA q :
           Bind(IF /\ NBit(n, sh - 1) = 1
                   /\ (sticky \/ NLowNonzero(n, sh - 1) \/ NIsOdd(q))
                THEN NAdd(q, <<1>>) ELSE q, LAMBDA q2 :
             IF NBitLen(q2) > MantBits
             THEN Finite(s, NShr(q2, 1), e + sh + 1)
             ELSE Finite(s, q2, e + sh)))))

\* an integer |n| < 2^31 as a number
Num(n) == Pack(IF n < 0 THEN 1 ELSE 0, NFromInt(IF n < 0 THEN 0 - n ELSE n),
               0, FALSE)

Neg(x) == IF IsNaN(x) THEN x ELSE [x EXCEPT !.s = 1 - x.s]
Math_abs(x) == IF IsNaN(x) THEN x ELSE [x EXCEPT !.s = 0]

\* -1, 0, 1: the order of the magnitudes of two numbers that are not NaN
CmpMag(x, y) ==
  IF x.k = "inf" \/ y.k = "inf"
  THEN (IF x.k = y.k THEN 0 ELSE IF x.k = "inf" THEN 1 ELSE -1)
  ELSE IF x.m = <<>> \/ y.m = <<>>
  THEN (IF x.m = y.m THEN 0 ELSE IF x.m = <<>> THEN -1 ELSE 1)
  ELSE IF x.e # y.e THEN (IF x.e < y.e THEN -1 ELSE 1)
  ELSE NCmp(x.m, y.m)

\* -1, 0, 1: the order of two numbers that are not NaN (-0 equals +0)
Cmp(x, y) ==
  IF IsZero(x) /\ IsZero(y) THEN 0
  ELSE IF x.s # y.s /\ ~IsZero(x) /\ ~IsZero(y) THEN (IF x.s = 1 THEN -1 ELSE 1)
  ELSE IF IsZero(x) THEN (IF y.s = 1 THEN 1 ELSE -1)
  ELSE IF IsZero(y) THEN (IF x.s = 1 THEN -1 ELSE 1)
  ELSE IF x.s = 1 THEN 0 - CmpMag(x, y) ELSE CmpMag(x, y)

\* the comparison operators: all false when an operand is NaN
Lt(x, y) == ~IsNaN(x) /\ ~IsNaN(y) /\ Cmp(x, y) < 0
Le(x, y) == ~IsNaN(x) /\ ~IsNaN(y) /\ Cmp(x, y) <= 0
Gt(x, y) == Lt(y, x)
Ge(x, y) == Le(y, x)

\* the widest gap of exponents over which a sum is formed exactly; beyond
\* it the smaller operand is less than a quarter of the last bit
AlignMax == 4 * MantBits

Add(x, y) ==
  IF IsNaN(x) \/ IsNaN(y) THEN NaN
  ELSE IF x.k = "inf" /\ y.k = "inf" THEN (IF x.s = y.s THEN x ELSE NaN)
  ELSE IF x.k = "inf" THEN x
  ELSE IF y.k = "inf" THEN y
  ELSE IF IsZero(x) /\ IsZero(y) THEN Zero(IF x.s = 1 /\ y.s = 1 THEN 1 ELSE 0)
  ELSE IF IsZero(x) THEN y
  ELSE IF IsZero(y) THEN x
  ELSE IF x.e - y.e > AlignMax THEN x
  ELSE IF y.e - x.e > AlignMax THEN y
  ELSE
    Bind(IMin(x.e, y.e), LAMBDA e :
    Bind(NShl(x.m, x.e - e), LAMBDA nx :
    Bind(NShl(y.m, y.e - e), LAMBDA ny :
    Bind(NCmp(nx, ny), LAMBDA c :
      IF x.s # y.s /\ c = 0 THEN Zero(0)
      ELSE Pack(IF x.s = y.s \/ c > 0 THEN x.s ELSE y.s,
                IF x.s = y.s THEN NAdd(nx, ny)
                ELSE IF c > 0 THEN NSub(nx, ny) ELSE NSub(ny, nx),
                e, FALSE)))))

Sub(x, y) == Add(x, Neg(y))

Mul(x, y) ==
  IF IsNaN(x) \/ IsNaN(y) THEN NaN
  ELSE LET s == (x.s + y.s) % 2
       IN IF x.k = "inf" \/ y.k = "inf"
          THEN (IF IsZero(x) \/ IsZero(y) THEN NaN ELSE Infinity(s))
          ELSE IF IsZero(x) \/ IsZero(y) THEN Zero(s)
          ELSE Pack(s, NMul(x.m, y.m), x.e + y.e, FALSE)

QuotBits == MantBits + 3

Div(x, y) ==
  IF IsNaN(x) \/ IsNaN(y) THEN NaN
  ELSE LET s == (x.s + y.s) % 2
       IN IF x.k = "inf" THEN (IF y.k = "inf" THEN NaN ELSE Infinity(s))
          ELSE IF y.k = "inf" THEN Zero(s)
          ELSE IF IsZero(y) THEN (IF IsZero(x) THEN NaN ELSE Infinity(s))
          ELSE IF IsZero(x) THEN Zero(s)
          ELSE
            Bind(NBitLen(x.m), LAMBDA lx :
            Bind(NBitLen(y.m), LAMBDA ly :
            \* both significands brought to the same length
            Bind(NShl(x.m, IMax(ly - lx, 0)), LAMBDA nx :
            Bind(NShl(y.m, IMax(lx - ly, 0)), LAMBDA ny :
            Bind(NDivSteps(IF NCmp(nx, ny) >= 0 THEN <<<<1>>, NSub(nx, ny)>>
                                                ELSE <<<<>>, nx>>,
                           ny, QuotBits), LAMBDA qr :
              Pack(s, qr[1],
                   (x.e - IMax(ly - lx, 0)) - (y.e - IMax(lx - ly, 0)) - QuotBits,
                   qr[2] # <<>>))))))

Math_sqrt(x) ==
  IF IsNaN(x) THEN NaN
  ELSE IF IsZero(x) THEN x
  ELSE IF x.s = 1 THEN NaN
  ELSE IF x.k = "inf" THEN x
  ELSE
    Bind(x.e % 2 = 1, LAMBDA odd :
    Bind(IF odd THEN NMulS(x.m, 2, 0) ELSE x.m, LAMBDA n :
    Bind((NBitLen(n) + 1) \div 2, LAMBDA pairs :
    Bind(NSqrtSteps(<<<<>>, <<>>, pairs - 1>>, n, QuotBits), LAMBDA rr :
      Pack(0, rr[1],
           ((IF odd THEN x.e - 1 ELSE x.e) \div 2) - (QuotBits - pairs),
           rr[2] # <<>>)))))

\* Math.pow(x, 2): the exact square, rounded once
Math_pow2(x) == Mul(x, x)

\* Math.min and Math.max of two numbers: NaN if either is, and -0 below +0
Math_min(x, y) ==
  IF IsNaN(x) \/ IsNaN(y) THEN NaN
  ELSE IF IsZero(x) /\ IsZero(y) THEN Zero(IF x.s = 1 \/ y.s = 1 THEN 1 ELSE 0)
  ELSE IF Cmp(x, y) <= 0 THEN x ELSE y

Math_max(x, y) ==
  IF IsNaN(x) \/ IsNaN(y) THEN NaN
  ELSE IF IsZero(x) /\ IsZero(y) THEN Zero(IF x.s = 1 /\ y.s = 1 THEN 1 ELSE 0)
  ELSE IF Cmp(x, y) >= 0 THEN x ELSE y

\* Math.round: the nearest integer, a half going up (towards +Infinity)
Math_round(x) ==
  IF x.k # "fin" \/ IsZero(x) \/ x.e >= 0 THEN x
  ELSE
    Bind(0 - x.e, LAMBDA k :
    Bind(NShl(<<1>>, k - 1), LAMBDA half :
      IF x.s = 1 /\ NCmp(x.m, half) <= 0 THEN Zero(1)
      ELSE Pack(x.s,
                NShr(IF x.s = 0 THEN NAdd(x.m, half)
                     ELSE NAdd(NSub(x.m, half), NSub(NShl(<<1>>, k), <<1>>)), k),
                0, FALSE)))

\* a decimal literal n * 10^-k of the source text (|n| < 2^31): the number
\* nearest to it
Dec(n, k) == Div(Num(n), Pack(0, NPow10(k), 0, FALSE))

(***************************************************************************)
(* The engine's state: the two module-level tables (objects, so mutable     *)
(* through any reference to them), and the call in progress.                *)
(***************************************************************************)
VARIABLES SPECIES_FORMULAS, SPECIES_RANGES, pc, call, ret

vars == <<SPECIES_FORMULAS, SPECIES_RANGES, pc, call, ret>>

\* the numeric literals of the source text
N0 == Num(0)
N1 == Num(1)
N2 == Num(2)
N4 == Num(4)
N30 == Num(30)
N35 == Num(35)
N100 == Num(100)
N1000 == Num(1000)
N10000 == Num(10000)
N0_1 == Dec(1, 1)
N0_5 == Dec(5, 1)
N0_6 == Dec(6, 1)
N0_7 == Dec(7, 1)
N0_8 == Dec(8, 1)
N0_9 == Dec(9, 1)
N1_5 == Dec(15, 1)
N40 == Num(40)
N60 == Num(60)
N70 == Num(70)
N85 == Num(85)
N120 == Num(120)

SpeciesTypes == {"arctic", "great"}

\* names every object inherits from Object.prototype; the model carries two
ObjectPrototypeKeys == {"constructor", "toString"}

\* a table whose arctic parabola is steeper, with its vertex at 21.5 days
SPECIES_FORMULAS_steep ==
  [arctic |-> [name |-> "Arctic Skua DE Formula",
               a |-> Neg(Dec(20000, 8)), b |-> Dec(8618, 6), c |-> Dec(8719, 4)],
   great |-> [name |-> "Great Skua DE Formula",
              a |-> Neg(Dec(10000, 8)), b |-> Dec(8442, 6), c |-> Dec(8843, 4)]]

SPECIES_FORMULAS_0 ==
  [arctic |-> [name |-> "Arctic Skua DE Formula",
               a |-> Neg(Dec(7345, 8)), b |-> Dec(8618, 6), c |-> Dec(8719, 4)],
   great |-> [name |-> "Great Skua DE Formula",
              a |-> Neg(Dec(10000, 8)), b |-> Dec(8442, 6), c |-> Dec(8843, 4)]]

SPECIES_RANGES_0 ==
  [arctic |-> [density |-> [min |-> Dec(80, 2), max |-> Dec(105, 2)],
               dbh |-> [min |-> N0, max |-> N35]],
   great |-> [density |-> [min |-> Dec(85, 2), max |-> Dec(110, 2)],
              dbh |-> [min |-> N0, max |-> N35]]]

\* a lookup that finds the arctic entry under every key
Lookup_sameEntry(table, key) == [is |-> "own", v |-> table.arctic]

\* table[key] of a plain object: an own entry, else a member inherited from
\* Object.prototype (truthy, with none of the entry's fields), else undefined
Lookup(table, key) ==
  IF key \in DOMAIN table THEN [is |-> "own", v |-> table[key]]
  ELSE IF key \in ObjectPrototypeKeys THEN [is |-> "inherited", v |-> <<>>]
  ELSE [is |-> "undefined", v |-> <<>>]

\* a field of `formula` read as a number: undefined becomes NaN in arithmetic
Coef(formula, f) == IF formula.is = "own" THEN formula.v[f] ELSE NaN

(***************************************************************************)
(* Completions.  A normal completion carries the returned value; a throw    *)
(* carries the message: its text as the sequence of template pieces from    *)
(* the outermost wrapper to the innermost message, the numbers interpolated *)
(* into it (nums) and the strings interpolated into it (strs).              *)
(***************************************************************************)
Return(v, locals) ==
  [ok |-> TRUE, value |-> v, msg |-> <<>>, nums |-> <<>>, strs |-> <<>>,
   locals |-> locals]

Throw(text, nums, strs, locals) ==
  [ok |-> FALSE, value |-> NaN, msg |-> <<text>>, nums |-> nums, strs |-> strs,
   locals |-> locals]

\* a wrapper that keeps its own text and drops the message it caught
Rethrow_dropsCause(prefix, nums, r, locals) ==
  [ok |-> FALSE, value |-> NaN, msg |-> <<prefix>>, nums |-> nums, strs |-> <<>>,
   locals |-> locals]

\* new Error(`${prefix}${error.message}`), nums being what prefix interpolates
Rethrow(prefix, nums, r, locals) ==
  [ok |-> FALSE, value |-> NaN, msg |-> <<prefix>> \o r.msg,
   nums |-> nums \o r.nums, strs |-> r.strs, locals |-> locals]

NoLocals == [stages |-> <<>>]

MsgAllPositive == "All measurements must be positive numbers"
MsgMassVolume == "Mass and egg volume must be positive numbers"
MsgInvalidDensity == "Invalid egg density: ${eggDensity} (must be positive)"
MsgHighDensity == "Egg density ${eggDensity} is unusually high (>2.0 g/ml). Please verify measurements."
MsgUnknownSpecies == "Unknown species type: ${speciesType}"
MsgNegDiscriminant == "Invalid calculation: discriminant is negative (${discriminant.toFixed(6)}). Egg density (${eggDensity}) is outside the valid range for this formula."
MsgNoValidRoot == "No valid DBH solution found. Roots: ${root1.toFixed(3)}, ${root2.toFixed(3)}. Expected range: 0-35 days."
MsgNegativeDBH == "Invalid result: DBH cannot be negative (${dbh.toFixed(3)} days). Input parameters: DE=${eggDensity}, species=${speciesType}"
MsgHighDBH == "DBH result ${dbh.toFixed(1)} days is unusually high. Please verify measurements."
MsgSpeciesType == "Species type must be 'arctic' or 'great'"
MsgCalculationFailed == "Calculation failed: "
MsgBatchFailed == "Calculation failed for input ${index + 1}: "
MsgTypeError == "TypeError: Cannot read properties of undefined"

(***************************************************************************)
(* calculateEggVolume, calculateEggDensity                                  *)
(***************************************************************************)
calculateEggVolume(length, breadth, kv) ==
  IF Le(length, N0) \/ Le(breadth, N0) \/ Le(kv, N0)
  THEN Throw(MsgAllPositive, <<>>, <<>>, NoLocals)
  ELSE LET volumeMm3 == Mul(Mul(kv, length), Math_pow2(breadth))
       IN Return(Div(volumeMm3, N1000), NoLocals)

calculateEggDensity(mass, eggVolume) ==
  IF Le(mass, N0) \/ Le(eggVolume, N0)
  THEN Throw(MsgMassVolume, <<>>, <<>>, NoLocals)
  ELSE Return(Div(mass, eggVolume), NoLocals)

(***************************************************************************)
(* calculateTBH: the DBH solver                                             *)
(***************************************************************************)
\* the filter with its lower end left out
InWindow_noLowerEnd(root) == Le(root, N35)

\* the filter with its upper end left out
InWindow_noUpperEnd(root) == Ge(root, N0)

\* the filter's predicate: root >= 0 && root <= 35
InWindow(root) == Ge(root, N0) /\ Le(root, N35)

\* Math.min(...validRoots) for one or two roots
MinOfRoots(validRoots) ==
  IF Len(validRoots) = 1 THEN validRoots[1]
  ELSE Math_min(validRoots[1], validRoots[2])

\* the quadratic a*DBH^2 + b*DBH + (c - DE) = 0, solved for DBH
SolveQuadratic(formula, eggDensity, speciesType) ==
  LET a == Coef(formula, "a")
      b == Coef(formula, "b")
      c == Coef(formula, "c")
  IN
  Bind(Sub(Math_pow2(b), Mul(Mul(N4, a), Sub(c, eggDensity))), LAMBDA discriminant :
    IF Lt(discriminant, N0)
    THEN Throw(MsgNegDiscriminant, <<discriminant, eggDensity>>, <<>>,
               [stages |-> <<"positive", "high", "species", "discriminant">>,
                discriminant |-> discriminant])
    ELSE
      Bind(Math_sqrt(discriminant), LAMBDA sqrtDiscriminant :
      Bind(Div(Add(Neg(b), sqrtDiscriminant), Mul(N2, a)), LAMBDA root1 :
      Bind(Div(Sub(Neg(b), sqrtDiscriminant), Mul(N2, a)), LAMBDA root2 :
      Bind(SelectSeq(<<root1, root2>>, InWindow), LAMBDA validRoots :
      Bind([stages |-> <<"positive", "high", "species", "discriminant", "roots">>,
            discriminant |-> discriminant,
            root1 |-> root1, root2 |-> root2,
            validRoots |-> validRoots], LAMBDA locals :
        IF Len(validRoots) = 0
        THEN Throw(MsgNoValidRoot, <<root1, root2>>, <<>>, locals)
        ELSE
          Bind(MinOfRoots(validRoots), LAMBDA dbh :
            IF Lt(dbh, N0)
            THEN Throw(MsgNegativeDBH, <<dbh, eggDensity>>, <<speciesType>>,
                       locals)
            ELSE IF Gt(dbh, N100)
            THEN Throw(MsgHighDBH, <<dbh>>, <<>>, locals)
            ELSE Return(dbh, locals))))))))

\* the density limit with 2.0 itself counted as too high
IsHighDensity_from2(eggDensity) == Ge(eggDensity, N2)

\* eggDensity > 2.0
IsHighDensity(eggDensity) == Gt(eggDensity, N2)

\* the order of the checks with the species looked up first
calculateTBH_speciesFirst(eggDensity, speciesType) ==
  LET formula == Lookup(SPECIES_FORMULAS, speciesType)
  IN IF formula.is = "undefined"
     THEN Throw(MsgUnknownSpecies, <<>>, <<speciesType>>, [stages |-> <<"species">>])
     ELSE IF Le(eggDensity, N0)
     THEN Throw(MsgInvalidDensity, <<eggDensity>>, <<>>,
                [stages |-> <<"species", "positive">>])
     ELSE IF IsHighDensity(eggDensity)
     THEN Throw(MsgHighDensity, <<eggDensity>>, <<>>,
                [stages |-> <<"species", "positive", "high">>])
     ELSE SolveQuadratic(formula, eggDensity, speciesType)

calculateTBH(eggDensity, speciesType) ==
  IF Le(eggDensity, N0)
  THEN Throw(MsgInvalidDensity, <<eggDensity>>, <<>>, [stages |-> <<"positive">>])
  ELSE IF IsHighDensity(eggDensity)
  THEN Throw(MsgHighDensity, <<eggDensity>>, <<>>, [stages |-> <<"positive", "high">>])
  ELSE
    LET formula == Lookup(SPECIES_FORMULAS, speciesType)
    IN IF formula.is = "undefined"
       THEN Throw(MsgUnknownSpecies, <<>>, <<speciesType>>,
                  [stages |-> <<"positive", "high", "species">>])
       ELSE SolveQuadratic(formula, eggDensity, speciesType)

(***************************************************************************)
(* calculateConfidence                                                      *)
(***************************************************************************)
\* the clamp carried out on a scale of 0 to 100
Clamp_percent(confidence) ==
  Math_max(Num(10), Math_min(N100, Mul(confidence, N100)))

\* Math.max(0.1, Math.min(1.0, confidence))
Clamp(confidence) == Math_max(N0_1, Math_min(N1, confidence))

\* the long-incubation test with 30 itself counted in
IsLongIncubation_from30(dbh) == Ge(dbh, N30)

\* dbh > 30
IsLongIncubation(dbh) == Gt(dbh, N30)

calculateConfidence(eggDensity, dbh, speciesType) ==
  LET ranges == Lookup(SPECIES_RANGES, speciesType)
  IN IF ranges.is # "own"
     THEN \* ranges.density.min of undefined, or of an object with no density
          Throw(MsgTypeError, <<>>, <<>>, NoLocals)
     ELSE
       LET density == ranges.v.density
       IN
       Bind(IF Lt(eggDensity, density.min) \/ Gt(eggDensity, density.max)
            THEN Mul(N1, N0_6)
            ELSE
              Bind(Sub(density.max, density.min), LAMBDA densityRange :
                LET distanceFromCenter ==
                      Math_abs(Sub(eggDensity,
                                   Add(density.min, Div(densityRange, N2))))
                    maxDistance == Div(densityRange, N2)
                IN Mul(N1, Add(N0_9, Mul(N0_1,
                           Sub(N1, Div(distanceFromCenter, maxDistance)))))),
            LAMBDA c1 :
         LET c2 == IF Lt(dbh, ranges.v.dbh.min) \/ Gt(dbh, ranges.v.dbh.max)
                   THEN Mul(c1, N0_7)
                   ELSE IF IsLongIncubation(dbh) THEN Mul(c1, N0_8)
                   ELSE c1
         IN Return(Clamp(c2), NoLocals))

(***************************************************************************)
(* calculateSkuaTBH: the facade, and calculateBatchTBH                      *)
(***************************************************************************)
\* rounding to a whole number whatever the scale
RoundTo_whole(x, scale) == Math_round(x)

\* Math.round(x * scale) / scale
RoundTo(x, scale) == Div(Math_round(Mul(x, scale)), scale)

\* the stamp taken from the arctic entry whatever the species
FormulaInfo_arctic(speciesType) ==
  [name |-> SPECIES_FORMULAS.arctic.name,
   version |-> "2.1",
   coefficients |-> [a |-> SPECIES_FORMULAS.arctic.a,
                     b |-> SPECIES_FORMULAS.arctic.b,
                     c |-> SPECIES_FORMULAS.arctic.c]]

\* const formula = SPECIES_FORMULAS[speciesType], and the formula field of
\* the result built from it
FormulaInfo(speciesType) ==
  LET formula == SPECIES_FORMULAS[speciesType]
  IN [name |-> formula.name,
      version |-> "2.1",
      coefficients |-> [a |-> formula.a, b |-> formula.b, c |-> formula.c]]

calculateSkuaTBH(input) ==
  IF \/ Le(input.length, N0) \/ Le(input.breadth, N0)
     \/ Le(input.mass, N0) \/ Le(input.kv, N0)
  THEN Throw(MsgAllPositive, <<>>, <<>>, [stages |-> <<"positive">>])
  ELSE IF input.speciesType \notin SpeciesTypes
  THEN Throw(MsgSpeciesType, <<>>, <<>>, [stages |-> <<"positive", "species">>])
  ELSE
    Bind(calculateEggVolume(input.length, input.breadth, input.kv), LAMBDA vol :
      LET s1 == <<"positive", "species", "volume">>
          s2 == Append(s1, "density")
          s3 == Append(s2, "solver")
          s4 == Append(s3, "confidence")
          eggVolume == vol.value
      IN IF ~vol.ok
         THEN Rethrow(MsgCalculationFailed, <<>>, vol, [stages |-> s1])
         ELSE
           Bind(calculateEggDensity(input.mass, eggVolume), LAMBDA den :
             LET eggDensity == den.value
             IN IF ~den.ok
                THEN Rethrow(MsgCalculationFailed, <<>>, den,
                             [stages |-> s2, eggVolume |-> eggVolume])
                ELSE
                  Bind(calculateTBH(eggDensity, input.speciesType), LAMBDA tbh :
                    LET dbh == tbh.value
                    IN IF ~tbh.ok
                       THEN Rethrow(MsgCalculationFailed, <<>>, tbh,
                                    [stages |-> s3, eggVolume |-> eggVolume,
                                     eggDensity |-> eggDensity])
                       ELSE
                         Bind(calculateConfidence(eggDensity, dbh, input.speciesType),
                              LAMBDA conf :
                           LET locals == [stages |-> s4, eggVolume |-> eggVolume,
                                          eggDensity |-> eggDensity, dbh |-> dbh,
                                          confidence |-> conf.value]
                           IN IF ~conf.ok
                              THEN Rethrow(MsgCalculationFailed, <<>>, conf, locals)
                              ELSE
                                Return(
                                  [tbh |-> RoundTo(dbh, N100),
                                   eggDensity |-> RoundTo(eggDensity, N10000),
                                   eggVolume |-> RoundTo(eggVolume, N100),
                                   confidence |-> RoundTo(conf.value, N1000),
                                   speciesType |-> input.speciesType,
                                   formula |-> FormulaInfo(input.speciesType)],
                                  locals)))))

\* the array index itself
Position_zeroBased(index) == Num(index)

\* ${index + 1}
Position(index) == Num(index + 1)

\* a map that leaves out the elements that fail and returns the rest
RECURSIVE BatchFrom_skipsFailures(_, _, _)
BatchFrom_skipsFailures(inputs, index, results) ==
  IF index = Len(inputs) THEN Return(results, [processed |-> index])
  ELSE Bind(calculateSkuaTBH(inputs[index + 1]), LAMBDA r :
         BatchFrom_skipsFailures(inputs, index + 1,
                                 IF r.ok THEN Append(results, r.value) ELSE results))

\* inputs.map(...): element index (0-based) onwards, given the results so far
RECURSIVE BatchFrom(_, _, _)
BatchFrom(inputs, index, results) ==
  IF index = Len(inputs) THEN Return(results, [processed |-> index])
  ELSE Bind(calculateSkuaTBH(inputs[index + 1]), LAMBDA r :
         IF ~r.ok
         THEN Rethrow(MsgBatchFailed, <<Position(index)>>, r,
                      [processed |-> index + 1])
         ELSE BatchFrom(inputs, index + 1, Append(results, r.value)))

calculateBatchTBH(inputs) == BatchFrom(inputs, 0, <<>>)

(***************************************************************************)
(* validateCalculationInput                                                 *)
(***************************************************************************)
ErrLength == "Egg length must be a positive number"
ErrBreadth == "Egg breadth must be a positive number"
ErrMass == "Egg mass must be a positive number"
ErrKv == "Kv constant must be a positive number"
ErrLengthRange == "Egg length must be between 60-85mm (typical Skua range)"
ErrBreadthRange == "Egg breadth must be between 40-60mm (typical Skua range)"
ErrMassRange == "Egg mass must be between 70-120g (typical Skua range)"
ErrKvRange == "Kv constant must be between 0.1-1.0"
ErrSpecies == "Species type must be either \"arctic\" or \"great\""
ErrDensityRange == "Calculated egg density is outside reasonable range (0.5-1.5 g/cm3)"
ErrDiscriminant == "Input parameters would result in invalid calculation (negative discriminant)"
ErrInvalid == "Input parameters are invalid for calculation"

\* a finding that is noted without being pushed onto errors
PushIf_warnOnly(errors, cond, e) == errors

\* errors.push(e) when cond
PushIf(errors, cond, e) == IF cond THEN Append(errors, e) ELSE errors

\* the try block: density and discriminant computed ahead of the solver,
\* given the errors so far
PreCalculation_densityOnly(input, errors) ==
  LET volumeMm3 == Mul(Mul(input.kv, input.length), Math_pow2(input.breadth))
      volumeCm3 == Div(volumeMm3, N1000)
  IN Bind(Div(input.mass, volumeCm3), LAMBDA density :
       PushIf(errors, Lt(density, N0_5) \/ Gt(density, N1_5), ErrDensityRange))

PreCalculation(input, errors) ==
  LET volumeMm3 == Mul(Mul(input.kv, input.length), Math_pow2(input.breadth))
      volumeCm3 == Div(volumeMm3, N1000)
  IN
  Bind(Div(input.mass, volumeCm3), LAMBDA density :
  Bind(PushIf(errors, Lt(density, N0_5) \/ Gt(density, N1_5), ErrDensityRange),
       LAMBDA e10 :
    LET formula == Lookup(SPECIES_FORMULAS, input.speciesType)
        a == Coef(formula, "a")
        b == Coef(formula, "b")
        c == Coef(formula, "c")
        discriminant == Sub(Math_pow2(b), Mul(Mul(N4, a), Sub(c, density)))
    IN IF formula.is = "undefined"
       THEN \* destructuring undefined throws; the catch pushes this
            Append(e10, ErrInvalid)
       ELSE PushIf(e10, Lt(discriminant, N0), ErrDiscriminant)))

\* a result that reports valid whatever the errors
ValidationResult_alwaysValid(errors) == [isValid |-> TRUE, errors |-> errors]

\* return { isValid: errors.length === 0, errors }
ValidationResult(errors) == [isValid |-> Len(errors) = 0, errors |-> errors]

validateCalculationInput(input) ==
  LET e1 == PushIf(<<>>, ~Number_isFinite(input.length) \/ Le(input.length, N0), ErrLength)
      e2 == PushIf(e1, ~Number_isFinite(input.breadth) \/ Le(input.breadth, N0), ErrBreadth)
      e3 == PushIf(e2, ~Number_isFinite(input.mass) \/ Le(input.mass, N0), ErrMass)
      e4 == PushIf(e3, ~Number_isFinite(input.kv) \/ Le(input.kv, N0), ErrKv)
      e5 == PushIf(e4, Lt(input.length, N60) \/ Gt(input.length, N85), ErrLengthRange)
      e6 == PushIf(e5, Lt(input.breadth, N40) \/ Gt(input.breadth, N60), ErrBreadthRange)
      e7 == PushIf(e6, Lt(input.mass, N70) \/ Gt(input.mass, N120), ErrMassRange)
      e8 == PushIf(e7, Lt(input.kv, N0_1) \/ Gt(input.kv, N1), ErrKvRange)
  IN
  Bind(PushIf(e8, input.speciesType \notin SpeciesTypes, ErrSpecies), LAMBDA e9 :
    ValidationResult(IF Len(e9) # 0 THEN e9 ELSE PreCalculation(input, e9)))

(***************************************************************************)
(* The kind of a failure.  The code raises plain Errors told apart by their *)
(* message; the kind is read off the innermost message, which the wrappers  *)
(* of calculateSkuaTBH and calculateBatchTBH keep at the end of theirs.     *)
(***************************************************************************)
ErrorKind(r) ==
  IF r.ok THEN "none"
  ELSE LET m == r.msg[Len(r.msg)]
       IN CASE m \in {MsgAllPositive, MsgMassVolume, MsgInvalidDensity}
                 -> "InvalidMeasurement"
            [] m = MsgHighDensity -> "ImplausibleMeasurement"
            [] m \in {MsgUnknownSpecies, MsgSpeciesType} -> "UnknownSpecies"
            [] m = MsgNegDiscriminant -> "UnsolvableFormula"
            [] m = MsgNoValidRoot -> "NoValidRoot"
            [] m \in {MsgNegativeDBH, MsgHighDBH} -> "ImplausibleResult"
            [] OTHER -> "TypeError"

(***************************************************************************)
(* The inputs the operations are driven with                                *)
(***************************************************************************)
DbhSteps == 7
MaxDensityTenths == 21
MaxDensity20ths == 23
MaxDbhFives == 8
MaxMassFives == 26
MaxBatch == 3
MaxMassGrams == 110

\* species tags a caller can pass: the two known ones, an unknown one, and
\* one that names a member of Object.prototype
Tags == SpeciesTypes \cup {"invalid", "constructor"}

NotNumbers == {NaN, Infinity(0), Infinity(1)}

\* densities handed to calculateTBH: the unit tests' values, the edges of
\* the two range checks, the values that are no real number, and a grid
\* the substitute-back expression: DE = a*DBH^2 + b*DBH + c
FormulaDensity(dbh, speciesType) ==
  LET f == SPECIES_FORMULAS_0[speciesType]
  IN Add(Add(Mul(f.a, Math_pow2(dbh)), Mul(f.b, dbh)), f.c)

\* the largest density the formula takes: c - b^2 / (4a)
FormulaMaximum(speciesType) ==
  LET f == SPECIES_FORMULAS_0[speciesType]
  IN Sub(f.c, Div(Mul(f.b, f.b), Mul(N4, f.a)))

\* a number, the next number above it and the next below it
Neighbours(x) ==
  {x, [x EXCEPT !.m = NAdd(x.m, <<1>>)], [x EXCEPT !.m = NSub(x.m, <<1>>)]}

\* densities at and next to the ends of the range each formula takes on
\* [0,35] (c, and a*35^2 + b*35 + c) and next to each parabola's maximum
WindowEdges ==
  {Dec(8718, 4), Dec(8719, 4), Dec(8842, 4), Dec(8843, 4),
   Dec(10572, 4), Dec(10573, 4), Dec(10835, 4), Dec(10836, 4),
   Dec(106, 2), Dec(107, 2), Dec(112, 2), Dec(113, 2)}
  \cup UNION {Neighbours(SPECIES_FORMULAS_0[t].c) \cup Neighbours(FormulaDensity(N35, t))
                \cup Neighbours(FormulaMaximum(t)) : t \in SpeciesTypes}

\* densities around 1.0065, which both formulas take at a dbh of about 18.5
NearCrossing == {Dec(1004, 3), Dec(1005, 3), Dec(10065, 4), Dec(1009, 3), Dec(101, 2)}

SolverDensities ==
  {Num(0 - 1), Zero(0), Zero(1), Num(2), Num(3),
   Dec(82, 2), Dec(84, 2), Dec(88, 2), Dec(92, 2), Dec(95, 2)}
  \cup NotNumbers
  \cup {Dec(i, 1) : i \in 1..MaxDensityTenths}
  \cup {Dec(86, 2), Dec(90, 2), Dec(94, 2), Dec(96, 2), Dec(98, 2)}
  \cup WindowEdges \cup NearCrossing

\* dbh values spread over [0,35], both ends included
DbhGrid == {Div(Num(35 * i), Num(DbhSteps)) : i \in 0..DbhSteps}

ScorerDensities ==
  {Dec(5 * i, 2) : i \in 15..MaxDensity20ths}
  \cup {Dec(925, 3), Dec(975, 3)} \cup NotNumbers

ScorerDbhs ==
  {Num(5 * i) : i \in (0 - 1)..MaxDbhFives} \cup {Num(31)} \cup {NaN, Infinity(0)}

\* a measurement of a typical egg: 80 x 50 mm, Kv 0.5, so 100 cm3
BaseInput ==
  [length |-> Num(80), breadth |-> Num(50), mass |-> Num(95), kv |-> Dec(5, 1),
   speciesType |-> "arctic"]

NumericFields == {"length", "breadth", "mass", "kv"}

BadValues == NotNumbers \cup {Zero(0), Num(0 - 1)}

Masses ==
  {Num(5 * i) : i \in 12..MaxMassFives} \cup {Num(82), Num(84), Num(200), Num(250)}
  \cup {Num(g) : g \in 86..MaxMassGrams}

\* each field just outside and exactly at the ends of the validator's band
BandEdges ==
  {<<"length", Num(59)>>, <<"length", N60>>, <<"length", N85>>, <<"length", Num(86)>>,
   <<"breadth", Num(39)>>, <<"breadth", N40>>, <<"breadth", N60>>, <<"breadth", Num(61)>>,
   <<"mass", Num(69)>>, <<"mass", N70>>, <<"mass", N120>>, <<"mass", Num(121)>>,
   <<"kv", Dec(9, 2)>>, <<"kv", N0_1>>, <<"kv", N1>>, <<"kv", Dec(101, 2)>>}

Inputs ==
  LET numeric == {[BaseInput EXCEPT !.mass = m] : m \in Masses}
                 \cup {[BaseInput EXCEPT ![f] = v] : f \in NumericFields, v \in BadValues}
                 \cup {[BaseInput EXCEPT ![e[1]] = e[2]] : e \in BandEdges}
  IN {[i EXCEPT !.speciesType = t] : i \in numeric, t \in Tags \ {"constructor"}}
     \cup {[BaseInput EXCEPT !.speciesType = "constructor"]}

\* values that are not a positive number
NotPositive == BadValues \cup {Zero(1), Num(0 - 70)}

\* arguments of calculateEggVolume (length, breadth, kv): typical eggs, and
\* each argument in turn replaced by a value that is not a positive number
VolumeArgs ==
  LET typical == {<<Num(70), Num(50), Dec(5, 1)>>, <<Num(80), Num(50), Dec(5, 1)>>,
                  <<Dec(723, 1), Dec(502, 1), Dec(507, 3)>>}
  IN typical
     \cup {[t EXCEPT ![k] = v] : t \in typical, k \in 1..3, v \in NotPositive}
     \cup {<<NaN, NaN, NaN>>, <<Zero(0), Zero(0), Zero(0)>>}

\* arguments of calculateEggDensity (mass, eggVolume), in the same way
DensityArgs ==
  LET typical == {<<Num(95), Num(100)>>, <<Dec(9189, 2), Dec(9237, 2)>>}
  IN typical
     \cup {[t EXCEPT ![k] = v] : t \in typical, k \in 1..2, v \in NotPositive}
     \cup {<<NaN, NaN>>, <<Zero(0), Zero(0)>>}

BatchInputs ==
  {BaseInput,
   [BaseInput EXCEPT !.mass = Num(250)],
   [BaseInput EXCEPT !.speciesType = "great"]}

RECURSIVE SeqsUpTo(_, _)
SeqsUpTo(S, n) ==
  IF n = 0 THEN {<<>>}
  ELSE LET shorter == SeqsUpTo(S, n - 1)
       IN shorter \cup {Append(q, x) : q \in {r \in shorter : Len(r) = n - 1}, x \in S}

Batches == SeqsUpTo(BatchInputs, MaxBatch)

(***************************************************************************)
(* The state machine: a caller invokes one exported operation at a time and *)
(* receives its completion.                                                 *)
(***************************************************************************)
NoCall == [op |-> "none"]
NoRet == Return(N0, NoLocals)

Init ==
  /\ SPECIES_FORMULAS = SPECIES_FORMULAS_0
  /\ SPECIES_RANGES = SPECIES_RANGES_0
  /\ pc = "idle"
  /\ call = NoCall
  /\ ret = NoRet

Invoke(c, r) ==
  /\ pc = "idle"
  /\ pc' = "returned"
  /\ call' = c
  /\ ret' = r
  /\ UNCHANGED <<SPECIES_FORMULAS, SPECIES_RANGES>>

Call_calculateEggVolume ==
  \E args \in VolumeArgs :
    Invoke([op |-> "calculateEggVolume", length |-> args[1], breadth |-> args[2],
            kv |-> args[3]],
           calculateEggVolume(args[1], args[2], args[3]))

Call_calculateEggDensity ==
  \E args \in DensityArgs :
    Invoke([op |-> "calculateEggDensity", mass |-> args[1], eggVolume |-> args[2]],
           calculateEggDensity(args[1], args[2]))

Call_calculateTBH ==
  \E eggDensity \in SolverDensities, speciesType \in Tags :
    Invoke([op |-> "calculateTBH", eggDensity |-> eggDensity,
            speciesType |-> speciesType],
           calculateTBH(eggDensity, speciesType))

\* density computed from a dbh by the species formula, then solved back
Call_roundTrip ==
  \E dbh \in DbhGrid, speciesType \in SpeciesTypes :
    \E eggDensity \in {FormulaDensity(dbh, speciesType)} :
       Invoke([op |-> "roundTrip", dbh |-> dbh, eggDensity |-> eggDensity,
               speciesType |-> speciesType],
              calculateTBH(eggDensity, speciesType))

Call_calculateConfidence ==
  \E eggDensity \in ScorerDensities, dbh \in ScorerDbhs, speciesType \in SpeciesTypes :
    Invoke([op |-> "calculateConfidence", eggDensity |-> eggDensity,
            dbh |-> dbh, speciesType |-> speciesType],
           calculateConfidence(eggDensity, dbh, speciesType))

Call_validateCalculationInput ==
  \E input \in Inputs :
    Invoke([op |-> "validateCalculationInput", input |-> input],
           Return(validateCalculationInput(input), NoLocals))

Call_calculateSkuaTBH ==
  \E input \in Inputs :
    Invoke([op |-> "calculateSkuaTBH", input |-> input], calculateSkuaTBH(input))

Call_calculateBatchTBH ==
  \E inputs \in Batches :
    Invoke([op |-> "calculateBatchTBH", inputs |-> inputs], calculateBatchTBH(inputs))

\* the caller has consumed the completion
Complete ==
  /\ pc = "returned"
  /\ pc' = "idle"
  /\ call' = NoCall
  /\ ret' = NoRet
  /\ UNCHANGED <<SPECIES_FORMULAS, SPECIES_RANGES>>

Next ==
  \/ Call_calculateEggVolume
  \/ Call_calculateEggDensity
  \/ Call_calculateTBH
  \/ Call_roundTrip
  \/ Call_calculateConfidence
  \/ Call_validateCalculationInput
  \/ Call_calculateSkuaTBH
  \/ Call_calculateBatchTBH
  \/ Complete

Spec == Init /\ [][Next]_vars

(***************************************************************************)
(* Concurrent callers.  Each caller has its own position (pc), its own call *)
(* and its own frame of locals (kept in ret until the call returns); the    *)
(* two tables are the only state the calls share.  A prediction advances    *)
(* one statement of its try block at a time and a batch one element at a    *)
(* time, so that steps of other callers fall between its reads of the       *)
(* tables; the other operations are one expression each.                    *)
(***************************************************************************)
Callers == {"A", "B"}

ConcurrentCalls ==
  {[op |-> "calculateEggVolume", length |-> Num(70), breadth |-> Num(50),
    kv |-> Dec(5, 1)],
   [op |-> "calculateEggVolume", length |-> Zero(0), breadth |-> Num(50),
    kv |-> Dec(5, 1)],
   [op |-> "calculateEggDensity", mass |-> Num(95), eggVolume |-> Num(100)],
   [op |-> "calculateEggDensity", mass |-> Num(100), eggVolume |-> Zero(0)],
   [op |-> "calculateTBH", eggDensity |-> Dec(95, 2), speciesType |-> "arctic"],
   [op |-> "calculateTBH", eggDensity |-> Dec(95, 2), speciesType |-> "invalid"],
   [op |-> "calculateConfidence", eggDensity |-> Dec(95, 2), dbh |-> Num(10),
    speciesType |-> "great"],
   [op |-> "validateCalculationInput", input |-> BaseInput],
   [op |-> "validateCalculationInput", input |-> [BaseInput EXCEPT !.mass = Num(250)]],
   [op |-> "calculateSkuaTBH", input |-> BaseInput],
   [op |-> "calculateSkuaTBH", input |-> [BaseInput EXCEPT !.speciesType = "great"]],
   [op |-> "calculateSkuaTBH", input |-> [BaseInput EXCEPT !.mass = Num(250)]],
   [op |-> "calculateSkuaTBH", input |-> [BaseInput EXCEPT !.length = Zero(0)]],
   [op |-> "calculateBatchTBH",
    inputs |-> <<BaseInput, [BaseInput EXCEPT !.speciesType = "great"]>>],
   [op |-> "calculateBatchTBH",
    inputs |-> <<BaseInput, [BaseInput EXCEPT !.mass = Num(250)], BaseInput>>]}

\* one frame that every caller's locals live in
FrameOf_shared(p) == CHOOSE q \in Callers : TRUE

\* the frame the locals of caller p's call live in: its own
FrameOf(p) == p

InitConcurrent ==
  /\ SPECIES_FORMULAS = SPECIES_FORMULAS_0
  /\ SPECIES_RANGES = SPECIES_RANGES_0
  /\ pc = [p \in Callers |-> "idle"]
  /\ call = [p \in Callers |-> NoCall]
  /\ ret = [p \in Callers |-> NoRet]

\* caller p moves to position to with frame f
Advance(p, to, f) ==
  /\ pc' = [pc EXCEPT ![p] = to]
  /\ ret' = [ret EXCEPT ![FrameOf(p)] = f]
  /\ UNCHANGED <<SPECIES_FORMULAS, SPECIES_RANGES, call>>

\* caller p enters an operation
Begin(p) ==
  /\ pc[p] = "idle"
  /\ \E c \in ConcurrentCalls :
       /\ call' = [call EXCEPT ![p] = c]
       /\ pc' = [pc EXCEPT ![p] =
                   CASE c.op = "calculateSkuaTBH" -> "check"
                     [] c.op = "calculateBatchTBH" -> "element"
                     [] OTHER -> "run"]
       /\ ret' = [ret EXCEPT ![FrameOf(p)] =
                    IF c.op = "calculateBatchTBH"
                    THEN Return(<<>>, [processed |-> 0])
                    ELSE NoRet]
  /\ UNCHANGED <<SPECIES_FORMULAS, SPECIES_RANGES>>

\* an operation that is one expression: evaluated and returned
Run(p) ==
  /\ pc[p] = "run"
  /\ LET c == call[p]
     IN Advance(p, "returned",
          CASE c.op = "calculateEggVolume"
                 -> calculateEggVolume(c.length, c.breadth, c.kv)
            [] c.op = "calculateEggDensity"
                 -> calculateEggDensity(c.mass, c.eggVolume)
            [] c.op = "calculateTBH" -> calculateTBH(c.eggDensity, c.speciesType)
            [] c.op = "calculateConfidence"
                 -> calculateConfidence(c.eggDensity, c.dbh, c.speciesType)
            [] c.op = "validateCalculationInput"
                 -> Return(validateCalculationInput(c.input), NoLocals))

\* one statement of calculateSkuaTBH at position stage, given the locals so
\* far: the position it leads to and the frame (or the completion) it leaves
PredictStage(stage, input, locals) ==
  LET s == Append(locals.stages, stage)
      Failed(r, l) == [pc |-> "returned", ret |-> Rethrow(MsgCalculationFailed, <<>>, r, l)]
      Goes(to, l) == [pc |-> to, ret |-> Return(N0, l)]
  IN
  CASE stage = "check" ->
         IF \/ Le(input.length, N0) \/ Le(input.breadth, N0)
            \/ Le(input.mass, N0) \/ Le(input.kv, N0)
         THEN [pc |-> "returned",
               ret |-> Throw(MsgAllPositive, <<>>, <<>>, [stages |-> <<"positive">>])]
         ELSE IF input.speciesType \notin SpeciesTypes
         THEN [pc |-> "returned",
               ret |-> Throw(MsgSpeciesType, <<>>, <<>>,
                             [stages |-> <<"positive", "species">>])]
         ELSE Goes("volume", [stages |-> <<"positive", "species">>])
    [] stage = "volume" ->
         Bind(calculateEggVolume(input.length, input.breadth, input.kv), LAMBDA vol :
           IF ~vol.ok THEN Failed(vol, [stages |-> s])
           ELSE Goes("density", [stages |-> s, eggVolume |-> vol.value]))
    [] stage = "density" ->
         Bind(calculateEggDensity(input.mass, locals.eggVolume), LAMBDA den :
           IF ~den.ok THEN Failed(den, [stages |-> s, eggVolume |-> locals.eggVolume])
           ELSE Goes("solver", [stages |-> s, eggVolume |-> locals.eggVolume,
                                eggDensity |-> den.value]))
    [] stage = "solver" ->
         Bind(calculateTBH(locals.eggDensity, input.speciesType), LAMBDA tbh :
           IF ~tbh.ok
           THEN Failed(tbh, [stages |-> s, eggVolume |-> locals.eggVolume,
                             eggDensity |-> locals.eggDensity])
           ELSE Goes("confidence", [stages |-> s, eggVolume |-> locals.eggVolume,
                                    eggDensity |-> locals.eggDensity,
                                    dbh |-> tbh.value]))
    [] stage = "confidence" ->
         Bind(calculateConfidence(locals.eggDensity, locals.dbh, input.speciesType),
              LAMBDA conf :
           Bind([stages |-> s, eggVolume |-> locals.eggVolume,
                 eggDensity |-> locals.eggDensity, dbh |-> locals.dbh,
                 confidence |-> conf.value], LAMBDA l :
             IF ~conf.ok THEN Failed(conf, l) ELSE Goes("result", l)))
    [] stage = "result" ->
         [pc |-> "returned",
          ret |-> Return([tbh |-> RoundTo(locals.dbh, N100),
                          eggDensity |-> RoundTo(locals.eggDensity, N10000),
                          eggVolume |-> RoundTo(locals.eggVolume, N100),
                          confidence |-> RoundTo(locals.confidence, N1000),
                          speciesType |-> input.speciesType,
                          formula |-> FormulaInfo(input.speciesType)],
                         locals)]

\* caller p's prediction carries out its next statement
Predict(p) ==
  /\ pc[p] \in {"check", "volume", "density", "solver", "confidence", "result"}
  /\ \E step \in {PredictStage(pc[p], call[p].input, ret[FrameOf(p)].locals)} :
       Advance(p, step.pc, step.ret)

\* caller p's batch maps its next element, or returns the array when there
\* is none left
Batch(p) ==
  /\ pc[p] = "element"
  /\ LET frame == ret[FrameOf(p)]
         index == frame.locals.processed
     IN IF index = Len(call[p].inputs)
        THEN Advance(p, "returned", frame)
        ELSE \E r \in {calculateSkuaTBH(call[p].inputs[index + 1])} :
               IF ~r.ok
               THEN Advance(p, "returned",
                            Rethrow(MsgBatchFailed, <<Position(index)>>, r,
                                    [processed |-> index + 1]))
               ELSE Advance(p, "element",
                            Return(Append(frame.value, r.value),
                                   [processed |-> index + 1]))

\* caller p has consumed the completion
Deliver(p) ==
  /\ pc[p] = "returned"
  /\ pc' = [pc EXCEPT ![p] = "idle"]
  /\ call' = [call EXCEPT ![p] = NoCall]
  /\ ret' = [ret EXCEPT ![FrameOf(p)] = NoRet]
  /\ UNCHANGED <<SPECIES_FORMULAS, SPECIES_RANGES>>

NextConcurrent ==
  \E p \in Callers :
    \/ Begin(p)
    \/ Run(p)
    \/ Predict(p)
    \/ Batch(p)
    \/ Deliver(p)

SpecConcurrent == InitConcurrent /\ [][NextConcurrent]_vars

(***************************************************************************)
(* Values handed out.  getFormulaCoefficients returns { ...SPECIES_FORMULAS }, *)
(* a new object whose members are the table's own entry objects, and        *)
(* getSpeciesRanges returns the table's entry object itself; neither table  *)
(* is frozen.  A member handed out is modelled as a reference to the entry  *)
(* it is, so that an assignment the caller makes through it lands where it  *)
(* does in the program.                                                     *)
(***************************************************************************)
Call_getFormulaCoefficients ==
  Invoke([op |-> "getFormulaCoefficients"],
         Return([t \in DOMAIN SPECIES_FORMULAS |-> [ref |-> <<"SPECIES_FORMULAS", t>>]],
                NoLocals))

Call_getSpeciesRanges ==
  \E speciesType \in SpeciesTypes :
    Invoke([op |-> "getSpeciesRanges", speciesType |-> speciesType],
           Return([ref |-> <<"SPECIES_RANGES", speciesType>>], NoLocals))

\* the caller assigns to the value it holds: a member of the copy replaced
\* (coefficients[t] = {...}), a coefficient written through a member
\* (coefficients[t].a = -0.0002), or a bound written through the ranges
\* entry (ranges.density.max = 0.9)
MutateHandedOut ==
  /\ pc = "returned"
  /\ \/ /\ call.op = "getFormulaCoefficients"
        /\ \E t \in DOMAIN ret.value :
             \/ /\ ret' = [ret EXCEPT !.value[t] = [own |-> SPECIES_FORMULAS_steep.arctic]]
                /\ UNCHANGED <<SPECIES_FORMULAS, SPECIES_RANGES>>
             \/ /\ "ref" \in DOMAIN ret.value[t]
                /\ SPECIES_FORMULAS' =
                     [SPECIES_FORMULAS EXCEPT ![ret.value[t].ref[2]].a =
                                                 SPECIES_FORMULAS_steep.arctic.a]
                /\ UNCHANGED <<SPECIES_RANGES, ret>>
     \/ /\ call.op = "getSpeciesRanges"
        /\ SPECIES_RANGES' =
             [SPECIES_RANGES EXCEPT ![ret.value.ref[2]].density.max = N0_9]
        /\ UNCHANGED <<SPECIES_FORMULAS, ret>>
  /\ UNCHANGED <<pc, call>>

NextHandedOut ==
  \/ Call_getFormulaCoefficients
  \/ Call_getSpeciesRanges
  \/ MutateHandedOut
  \/ Call_calculateTBH
  \/ Call_calculateConfidence
  \/ Call_validateCalculationInput
  \/ Call_calculateSkuaTBH
  \/ Complete

SpecHandedOut == Init /\ [][NextHandedOut]_vars

(***************************************************************************)
(* POST /api/measurements.  The handler validates the body, and then        *)
(* publishes its events one await after the other; each publish succeeds,   *)
(* raises an error whose message includes 'timeout', or raises another      *)
(* error.  Two versions of the handler and two versions of the validator's  *)
(* rules are in the source; a request is served by one of each.  ret.at is  *)
(* the publish the handler is awaiting, ret.events the publishes it has     *)
(* made, each with its outcome, ret.engine the completion of its            *)
(* calculateSkuaTBH call (NoCall until it makes one).                       *)
(***************************************************************************)
\* the errors validateEggMeasurement collects, as the fields they are about
validateEggMeasurement(rules, data) ==
  LET band == IF rules = "part_021"
              THEN [length |-> <<Num(53), Num(82)>>, breadth |-> <<Num(37), Num(57)>>,
                    mass |-> <<Num(38), N100>>, kv |-> <<N0_1, N1>>]
              ELSE [length |-> <<N60, N85>>, breadth |-> <<N40, N60>>,
                    mass |-> <<N70, N120>>, kv |-> <<N0_1, N1>>]
      \* typeof v !== 'number' || isNaN(v), then !isInRange(v, min, max)
      bad(f) == \/ data[f].k \in {"null", "nan"}
                \/ ~(Ge(data[f], band[f][1]) /\ Le(data[f], band[f][2]))
      fields == <<"length", "breadth", "mass", "kv">>
      numeric == SelectSeq(fields, bad)
  IN IF data.speciesType \in {"arctic", "great"}
     THEN numeric ELSE Append(numeric, "speciesType")

\* request bodies: the typical egg at masses that the engine solves (95),
\* refuses (84), that only one version of the rules accepts (105) and that
\* neither accepts (200); a length that is null; an unknown species;
\* with and without a session; and a body without measurements
Bodies ==
  LET eggs == {[BaseInput EXCEPT !.mass = Num(g)] : g \in {95, 84, 105, 200}}
              \cup {[BaseInput EXCEPT !.length = [k |-> "null"]],
                    [BaseInput EXCEPT !.speciesType = "great"],
                    [BaseInput EXCEPT !.speciesType = "invalid"]}
  IN {[measurements |-> [length |-> i.length, breadth |-> i.breadth,
                         mass |-> i.mass, kv |-> i.kv],
       speciesType |-> i.speciesType, sessionId |-> s] :
        i \in eggs, s \in BOOLEAN}
     \cup {[measurements |-> [undefined |-> TRUE], speciesType |-> "arctic", sessionId |-> FALSE]}

\* NextResponse.json(..., { status }) ends the request
Respond(r, status, success) ==
  /\ pc' = "returned"
  /\ ret' = [r EXCEPT !.at = "responded", !.status = status, !.success = success]

\* the outer catch: 500, or in part_007 200 with success: true when the
\* message includes 'timeout' ('error' is an error that is no ZodError and
\* whose message matches none of the patterns part_007 tests)
OuterCatch(version, r, outcome) ==
  IF version = "part_007" /\ outcome = "timeout"
  THEN Respond(r, 200, TRUE)
  ELSE Respond(r, 500, FALSE)

Await(r, event) ==
  /\ pc' = "awaiting"
  /\ ret' = [r EXCEPT !.at = event]

\* request.json(), the destructuring and validateEggMeasurement, up to the
\* first await
POST_receive ==
  \E version \in {"route.ts", "part_007"}, rules \in {"part_021", "part_022"},
     body \in Bodies :
    LET r == [at |-> "start", events |-> <<>>, engine |-> NoCall,
              errors |-> <<>>, status |-> 0, success |-> FALSE]
    IN /\ pc = "idle"
       /\ call' = [op |-> "POST", version |-> version, rules |-> rules, body |-> body]
       /\ UNCHANGED <<SPECIES_FORMULAS, SPECIES_RANGES>>
       /\ IF "length" \notin DOMAIN body.measurements
          THEN \* measurements.length raises a TypeError
               OuterCatch(version, r, "error")
          ELSE LET errors == validateEggMeasurement(rules,
                               [length |-> body.measurements.length,
                                breadth |-> body.measurements.breadth,
                                mass |-> body.measurements.mass,
                                kv |-> body.measurements.kv,
                                speciesType |-> body.speciesType])
               IN IF errors # <<>>
                  THEN Await([r EXCEPT !.errors = errors], "measurement.rejected")
                  ELSE Await(r, "measurement.submitted")

\* the publish the handler awaits settles, and the handler runs to its next
\* await or to its response
POST_resume ==
  /\ pc = "awaiting"
  /\ UNCHANGED <<SPECIES_FORMULAS, SPECIES_RANGES, call>>
  /\ \/ \E outcome \in {"ok", "timeout", "error"} :
          LET r == [ret EXCEPT !.events =
                      Append(@, [event |-> ret.at, outcome |-> outcome])]
              proceeds == outcome # "error"
              requested == Await(r, "prediction.requested")
          IN CASE ret.at = "measurement.rejected" ->
                    IF outcome = "ok" THEN Respond(r, 400, FALSE)
                    ELSE OuterCatch(call.version, r, outcome)
               [] ret.at = "measurement.submitted" ->
                    IF proceeds THEN Await(r, "measurement.validated")
                    ELSE OuterCatch(call.version, r, outcome)
               [] ret.at = "measurement.validated" ->
                    IF ~proceeds THEN OuterCatch(call.version, r, outcome)
                    ELSE IF call.body.sessionId
                         THEN Await(r, "session.measurement-added")
                         ELSE requested
               [] ret.at = "session.measurement-added" ->
                    IF proceeds \/ call.version = "part_007" THEN requested
                    ELSE OuterCatch(call.version, r, outcome)
               [] ret.at = "prediction.requested" ->
                    IF ~proceeds THEN OuterCatch(call.version, r, outcome)
                    ELSE Bind(calculateSkuaTBH(
                                [length |-> call.body.measurements.length,
                                 breadth |-> call.body.measurements.breadth,
                                 mass |-> call.body.measurements.mass,
                                 kv |-> call.body.measurements.kv,
                                 speciesType |-> call.body.speciesType]),
                              LAMBDA prediction :
                                Await([r EXCEPT !.engine = prediction],
                                      IF prediction.ok THEN "prediction.calculated"
                                      ELSE "prediction.failed"))
               [] ret.at = "prediction.calculated" ->
                    \* a rethrown publish error lands in catch (predictionError)
                    IF proceeds THEN Respond(r, 200, TRUE)
                    ELSE Await(r, "prediction.failed")
               [] ret.at = "prediction.failed" -> Respond(r, 500, FALSE)
     \/ \* part_007: the sequence-number query raises, nothing is published
        /\ call.version = "part_007"
        /\ ret.at = "session.measurement-added"
        /\ Await(ret, "prediction.requested")

NextRoute ==
  \/ POST_receive
  \/ POST_resume
  \/ Complete

SpecRoute == Init /\ [][NextRoute]_vars

(***************************************************************************)
(* Properties                                                               *)
(***************************************************************************)
\* a completed call of the solver, made directly or with a computed density
SolverReturned == pc = "returned" /\ call.op \in {"calculateTBH", "roundTrip"}

Returned(op) == pc = "returned" /\ call.op = op

\* the DBH window [0,35] as the properties state it, both ends included
InRange0to35(x) == Ge(x, N0) /\ Le(x, N35)

\* the members of a set of numbers that no member is below
Smallest(S) == {x \in S : \A y \in S : Le(x, y)}

\* the kind the fixed order of checks assigns to a density and a species tag.
\* A tag is in the formula table when SPECIES_FORMULAS[tag] yields a value.
FirstFailingCheck(eggDensity, speciesType) ==
  IF Le(eggDensity, N0) THEN "InvalidMeasurement"
  ELSE IF Gt(eggDensity, N2) THEN "ImplausibleMeasurement"
  ELSE
    LET formula == Lookup(SPECIES_FORMULAS, speciesType)
    IN IF formula.is = "undefined" THEN "UnknownSpecies"
       ELSE
         LET a == Coef(formula, "a")
             b == Coef(formula, "b")
             c == Coef(formula, "c")
             disc == Sub(Mul(b, b), Mul(Mul(N4, a), Sub(c, eggDensity)))
         IN IF Lt(disc, N0) THEN "UnsolvableFormula"
            ELSE
              LET r1 == Div(Add(Neg(b), Math_sqrt(disc)), Mul(N2, a))
                  r2 == Div(Sub(Neg(b), Math_sqrt(disc)), Mul(N2, a))
                  inside == {r \in {r1, r2} : InRange0to35(r)}
              IN IF inside = {} THEN "NoValidRoot"
                 ELSE IF \E r \in Smallest(inside) : Lt(r, N0) \/ Gt(r, N100)
                 THEN "ImplausibleResult"
                 ELSE "none"

C2_ValidatorSolverAgreement ==
  (Returned("calculateSkuaTBH") /\ validateCalculationInput(call.input).isValid)
    => ErrorKind(ret) \notin {"UnsolvableFormula", "NoValidRoot"}

\* an 80 x 50 mm arctic egg of 82 g (density 0.82) is accepted by the
\* validator and the prediction has failed for want of a root in [0,35]
C2_Witness ==
  /\ Returned("calculateSkuaTBH")
  /\ call.input = [BaseInput EXCEPT !.mass = Num(82)]
  /\ validateCalculationInput(call.input).isValid
  /\ ErrorKind(ret) = "NoValidRoot"

\* C3: for both species and every dbh in [0,35], ends included, solving the
\* density a*dbh^2 + b*dbh + c succeeds and returns a value within 1e-3 of dbh.
C3_RoundTrip ==
  Returned("roundTrip") =>
    /\ ret.ok
    /\ Le(Math_abs(Sub(ret.value, call.dbh)), Dec(1, 3))

\* the arctic density of dbh = 35 has been solved: the root comes out above
\* 35 and the call has failed
C3_Witness ==
  /\ Returned("roundTrip")
  /\ call.dbh = N35
  /\ call.speciesType = "arctic"
  /\ ErrorKind(ret) = "NoValidRoot"
  /\ Gt(ret.locals.root1, N35)

\* the two roots the solver computed, once it has got that far
RootsOf(r) ==
  IF "roots" \in {r.locals.stages[i] : i \in DOMAIN r.locals.stages}
  THEN {r.locals.root1, r.locals.root2}
  ELSE {}

\* C4: whenever at least one of the two roots lies in [0,35], calculateTBH
\* returns the smallest of the roots lying in [0,35]; it never returns a root
\* outside [0,35], nor anything that is not one of the roots.
C4_RootSelection ==
  SolverReturned =>
    LET inside == {r \in RootsOf(ret) : InRange0to35(r)}
    IN /\ inside # {} => (ret.ok /\ ret.value \in Smallest(inside))
       /\ ret.ok => ret.value \in inside

\* one root in [0,35] and the other outside it: the inside one was returned
C4_Witness ==
  /\ SolverReturned
  /\ ret.ok
  /\ \E r \in RootsOf(ret) : ~InRange0to35(r)
  /\ InRange0to35(ret.value)
  /\ ret.value \in RootsOf(ret)

\* the 0-based indices of the elements of a batch on which calculateSkuaTBH fails
FailingIndices(inputs) ==
  {i \in 0..(Len(inputs) - 1) : ~calculateSkuaTBH(inputs[i + 1]).ok}

\* a batch of three whose first and third elements succeed and whose second fails
GoodBadGood(inputs) == Len(inputs) = 3 /\ FailingIndices(inputs) = {1}

\* C5 (amended): a batch fails exactly when one of its elements fails, and
\* the failure then names the first failing element by its 1-based position,
\* the array index plus one, and carries that element's own failure; for
\* [good, bad, good] the number named is 2.
C5_BatchPosition ==
  Returned("calculateBatchTBH") =>
    LET failing == FailingIndices(call.inputs)
    IN /\ ret.ok <=> failing = {}
       /\ \A i \in failing :
            (\A j \in failing : i <= j) =>
              /\ ret.msg[1] = MsgBatchFailed
              /\ ret.nums[1] = Num(i + 1)
              /\ ErrorKind(ret) = ErrorKind(calculateSkuaTBH(call.inputs[i + 1]))
       /\ GoodBadGood(call.inputs) => ret.nums[1] = Num(2)

\* [good, bad, good] has failed and the failure names position 2
C5_Witness ==
  /\ Returned("calculateBatchTBH")
  /\ GoodBadGood(call.inputs)
  /\ ~ret.ok
  /\ ret.nums[1] = Num(2)

\* C5 as first stated: the failure of [good, bad, good] identifies index 1 as
\* the failing element.
C5_IndexOne ==
  (Returned("calculateBatchTBH") /\ GoodBadGood(call.inputs)) =>
    (~ret.ok /\ ret.nums[1] = Num(1))

\* the checks and stages of a prediction in their fixed order
StageOrder == <<"positive", "species", "volume", "density", "solver", "confidence">>

\* the first check or stage that fails on an input, taking each stage on its
\* own, and the kind of error that stage raises
FirstFailingStage(input) ==
  IF \E f \in NumericFields : Le(input[f], N0)
  THEN [stage |-> "positive", kind |-> "InvalidMeasurement"]
  ELSE IF input.speciesType \notin SpeciesTypes
  THEN [stage |-> "species", kind |-> "UnknownSpecies"]
  ELSE
    LET vol == calculateEggVolume(input.length, input.breadth, input.kv)
    IN IF ~vol.ok THEN [stage |-> "volume", kind |-> ErrorKind(vol)]
       ELSE
         LET den == calculateEggDensity(input.mass, vol.value)
         IN IF ~den.ok THEN [stage |-> "density", kind |-> ErrorKind(den)]
            ELSE
              LET tbh == calculateTBH(den.value, input.speciesType)
              IN IF ~tbh.ok THEN [stage |-> "solver", kind |-> ErrorKind(tbh)]
                 ELSE
                   LET conf == calculateConfidence(den.value, tbh.value,
                                                   input.speciesType)
                   IN IF ~conf.ok
                      THEN [stage |-> "confidence", kind |-> ErrorKind(conf)]
                      ELSE [stage |-> "confidence", kind |-> "none"]

\* C6: calculateSkuaTBH runs its checks and stages in the order non-positive
\* field, unknown species, egg volume, egg density, solver, confidence; it
\* fails with the error of the first that fails, runs no stage after it, and
\* hands the caller the kind that stage raised.
C6_StageOrder ==
  Returned("calculateSkuaTBH") =>
    LET first == FirstFailingStage(call.input)
        ran == ret.locals.stages
    IN /\ ErrorKind(ret) = first.kind
       /\ ran = SubSeq(StageOrder, 1, Len(ran))
       /\ ran[Len(ran)] = first.stage
       /\ ret.ok <=> first.kind = "none"

\* an unknown species with a density of 2.5 has failed with UnknownSpecies,
\* no stage having run
C6_Witness ==
  /\ Returned("calculateSkuaTBH")
  /\ call.input = [BaseInput EXCEPT !.mass = Num(250), !.speciesType = "invalid"]
  /\ ErrorKind(ret) = "UnknownSpecies"
  /\ ret.locals.stages = <<"positive", "species">>

\* a numeric field that is NaN, an infinity, zero or negative
StructurallyInvalid(input) ==
  \E f \in NumericFields : ~Number_isFinite(input[f]) \/ Le(input[f], N0)

\* C7: whenever length, breadth, mass or kv is NaN, +Infinity, -Infinity,
\* zero or negative, calculateSkuaTBH fails with InvalidMeasurement and with
\* no other kind.
C7_NoComputationOnInvalid ==
  (Returned("calculateSkuaTBH") /\ StructurallyInvalid(call.input))
    => ErrorKind(ret) = "InvalidMeasurement"

\* a length of NaN has gone through volume, density and the solver and has
\* failed there with NoValidRoot
C7_Witness ==
  /\ Returned("calculateSkuaTBH")
  /\ call.input = [BaseInput EXCEPT !.length = NaN]
  /\ ErrorKind(ret) = "NoValidRoot"
  /\ ret.locals.stages = SubSeq(StageOrder, 1, 5)

\* a mass of +Infinity has failed with ImplausibleMeasurement
C7_InfiniteMass ==
  /\ Returned("calculateSkuaTBH")
  /\ call.input = [BaseInput EXCEPT !.mass = Infinity(0)]
  /\ ErrorKind(ret) = "ImplausibleMeasurement"

InUnitBand(c) == Ge(c, N0_1) /\ Le(c, N1)

ReferenceDensityRange(speciesType) ==
  IF speciesType = "arctic" THEN [min |-> Dec(80, 2), max |-> Dec(105, 2)]
  ELSE [min |-> Dec(85, 2), max |-> Dec(110, 2)]

\* the reference scorer
ReferenceConfidence(eggDensity, dbh, speciesType) ==
  LET range == ReferenceDensityRange(speciesType)
      midpoint == Div(Add(range.min, range.max), N2)
      halfWidth == Div(Sub(range.max, range.min), N2)
      c1 == IF Lt(eggDensity, range.min) \/ Gt(eggDensity, range.max)
            THEN N0_6
            ELSE Add(N0_9, Mul(N0_1,
                   Sub(N1, Div(Math_abs(Sub(eggDensity, midpoint)), halfWidth))))
      c2 == IF Lt(dbh, N0) \/ Gt(dbh, N35) THEN Mul(c1, N0_7)
            ELSE IF Gt(dbh, N30) THEN Mul(c1, N0_8)
            ELSE c1
  IN IF Lt(c2, N0_1) THEN N0_1 ELSE IF Gt(c2, N1) THEN N1 ELSE c2

\* equal up to the rounding of the last few bits
Close(x, y) == Le(Math_abs(Sub(x, y)), Dec(1, 12))

\* C9: for every density and dbh that are numbers and both species,
\* calculateConfidence equals the reference scorer: 1.0, times 0.6 if the
\* density is strictly outside the species range and otherwise times
\* 0.9 + 0.1*(1 - |density - midpoint| / halfWidth), then times 0.7 if dbh is
\* strictly outside [0,35] and otherwise times 0.8 if dbh > 30, then clamped
\* to [0.1,1.0]; range ends count as inside and dbh = 30 is not penalised.
C9_ConfidenceArithmetic ==
  (Returned("calculateConfidence") /\ ~IsNaN(call.eggDensity) /\ ~IsNaN(call.dbh))
    => /\ ret.ok
       /\ Close(ret.value,
                ReferenceConfidence(call.eggDensity, call.dbh, call.speciesType))

\* the lower end of the arctic density range with a dbh of exactly 30 has
\* been scored 0.9: neither the 0.6 nor the 0.8 factor was applied
C9_Witness ==
  /\ Returned("calculateConfidence")
  /\ call.speciesType = "arctic"
  /\ call.eggDensity = Dec(80, 2)
  /\ call.dbh = N30
  /\ ret.ok /\ Close(ret.value, N0_9)

\* four finite positive numeric fields
NumericFieldsOK(input) ==
  \A f \in NumericFields : Number_isFinite(input[f]) /\ Gt(input[f], N0)

\* C10: for finite positive numeric fields and a species tag that is not one
\* of the two known values, validateCalculationInput reports invalid with a
\* species error and calculateSkuaTBH fails with UnknownSpecies; calculateTBH
\* with such a tag and a density in (0, 2.0] fails with UnknownSpecies.
C10_UnknownSpecies ==
  /\ (Returned("validateCalculationInput") /\ NumericFieldsOK(call.input)
        /\ call.input.speciesType \notin SpeciesTypes)
       => /\ ~ret.value.isValid
          /\ \E k \in DOMAIN ret.value.errors : ret.value.errors[k] = ErrSpecies
  /\ (Returned("calculateSkuaTBH") /\ NumericFieldsOK(call.input)
        /\ call.input.speciesType \notin SpeciesTypes)
       => ErrorKind(ret) = "UnknownSpecies"
  /\ (Returned("calculateTBH") /\ call.speciesType \notin SpeciesTypes
        /\ Gt(call.eggDensity, N0) /\ Le(call.eggDensity, N2))
       => ErrorKind(ret) = "UnknownSpecies"

\* calculateTBH(0.95, "constructor") has run the quadratic on coefficients
\* that are not there and has failed with NoValidRoot
C10_Witness ==
  /\ Returned("calculateTBH")
  /\ call.speciesType = "constructor"
  /\ call.eggDensity = Dec(95, 2)
  /\ ErrorKind(ret) = "NoValidRoot"
  /\ \A r \in RootsOf(ret) : IsNaN(r)

\* one of the two species the engine has formulas for
KnownSpecies(input) == input.speciesType \in SpeciesTypes

\* mass / (kv * length * breadth^2 / 1000)
ComputedDensity(input) ==
  Div(input.mass,
      Div(Mul(Mul(input.kv, input.length), Mul(input.breadth, input.breadth)),
          N1000))

\* C11: for finite positive fields and a known species, a computed density
\* strictly greater than 2.0 makes calculateSkuaTBH fail with
\* ImplausibleMeasurement, and a density of exactly 2.0 does not.
C11_DensityTooHigh ==
  (Returned("calculateSkuaTBH") /\ NumericFieldsOK(call.input)
     /\ KnownSpecies(call.input))
    => /\ Gt(ComputedDensity(call.input), N2)
            => ErrorKind(ret) = "ImplausibleMeasurement"
       /\ ComputedDensity(call.input) = N2
            => ErrorKind(ret) # "ImplausibleMeasurement"

\* a 250 g egg of 100 cm3 (density 2.5) has failed at the solver's density
\* limit
C11_Witness ==
  /\ Returned("calculateSkuaTBH")
  /\ call.input = [BaseInput EXCEPT !.mass = Num(250)]
  /\ Gt(ret.locals.eggDensity, N2)
  /\ ErrorKind(ret) = "ImplausibleMeasurement"

\* a 200 g egg of 100 cm3 (density exactly 2.0) has passed the density limit
\* and has failed later, at the discriminant
C11_ExactlyTwo ==
  /\ Returned("calculateSkuaTBH")
  /\ call.input = [BaseInput EXCEPT !.mass = Num(200)]
  /\ ret.locals.eggDensity = N2
  /\ ErrorKind(ret) = "UnsolvableFormula"

\* C12: every value a successful calculateTBH returns, and the tbh field of
\* every successful calculateSkuaTBH result, lies in [0,35].
C12_DbhWindow ==
  /\ (SolverReturned /\ ret.ok) => InRange0to35(ret.value)
  /\ (Returned("calculateSkuaTBH") /\ ret.ok)
       => /\ InRange0to35(ret.locals.dbh)
          /\ InRange0to35(ret.value.tbh)

\* the typical egg (density 0.95, arctic) has been predicted: the root
\* chosen and the rounded tbh reported are days in [0,35], the other root
\* lying far above the window
C12_Witness ==
  /\ Returned("calculateSkuaTBH")
  /\ call.input = BaseInput
  /\ ret.ok
  /\ Gt(ret.value.tbh, N0) /\ Le(ret.value.tbh, N35)
  /\ ret.value.tbh = RoundTo(ret.locals.dbh, N100)

\* the other of the two species
OtherSpecies(speciesType) == IF speciesType = "arctic" THEN "great" ELSE "arctic"

\* C13: every successful calculateSkuaTBH result carries the species of its
\* input, the name of that species' entry of the formula table, version
\* "2.1", and the coefficients a, b, c of that entry, which are not those of
\* the other species.
C13_ResultStamp ==
  (Returned("calculateSkuaTBH") /\ ret.ok) =>
    LET entry == SPECIES_FORMULAS_0[call.input.speciesType]
        other == SPECIES_FORMULAS_0[OtherSpecies(call.input.speciesType)]
    IN /\ ret.value.speciesType = call.input.speciesType
       /\ ret.value.formula.name = entry.name
       /\ ret.value.formula.version = "2.1"
       /\ ret.value.formula.coefficients = [a |-> entry.a, b |-> entry.b, c |-> entry.c]
       /\ ret.value.formula.coefficients # [a |-> other.a, b |-> other.b, c |-> other.c]
       /\ ret.value.formula.name # other.name

\* a great skua egg has been predicted and stamped with the great formula
C13_Witness ==
  /\ Returned("calculateSkuaTBH")
  /\ call.input.speciesType = "great"
  /\ ret.ok
  /\ ret.value.speciesType = "great"
  /\ ret.value.formula.name = "Great Skua DE Formula"
  /\ ret.value.formula.coefficients.c = Dec(8843, 4)

\* the band the validator is stated to accept for each numeric field, and
\* the two messages about the field
Band(f) ==
  CASE f = "length" -> [lo |-> Num(60), hi |-> Num(85),
                        positive |-> ErrLength, range |-> ErrLengthRange]
    [] f = "breadth" -> [lo |-> Num(40), hi |-> Num(60),
                         positive |-> ErrBreadth, range |-> ErrBreadthRange]
    [] f = "mass" -> [lo |-> Num(70), hi |-> Num(120),
                      positive |-> ErrMass, range |-> ErrMassRange]
    [] f = "kv" -> [lo |-> Dec(1, 1), hi |-> Num(1),
                    positive |-> ErrKv, range |-> ErrKvRange]

\* the messages of a sequence of errors
Messages(errors) == {errors[i] : i \in DOMAIN errors}

\* C14: validateCalculationInput reports invalid, with the field's range
\* message among the errors, whenever length is outside [60,85], breadth
\* outside [40,60], mass outside [70,120] or kv outside [0.1,1.0]; the ends
\* of a band draw no range message; any of the four being non-finite or not
\* positive is reported invalid with the field's positive-number message;
\* and the result holds nothing but isValid and errors.
C14_ValidatorBands ==
  Returned("validateCalculationInput") =>
    /\ DOMAIN ret.value = {"isValid", "errors"}
    /\ \A f \in NumericFields :
         LET x == call.input[f]
             band == Band(f)
         IN /\ (Lt(x, band.lo) \/ Gt(x, band.hi))
                 => (~ret.value.isValid /\ band.range \in Messages(ret.value.errors))
            /\ (x = band.lo \/ x = band.hi)
                 => band.range \notin Messages(ret.value.errors)
            /\ (~Number_isFinite(x) \/ Le(x, N0))
                 => (~ret.value.isValid /\ band.positive \in Messages(ret.value.errors))

\* a length of 86 mm, all else typical, has been rejected with the length
\* range message as its only error
C14_Witness ==
  /\ Returned("validateCalculationInput")
  /\ call.input = [BaseInput EXCEPT !.length = Num(86)]
  /\ ~ret.value.isValid
  /\ ret.value.errors = <<ErrLengthRange>>

\* a mass of exactly 70 g, the lower end of its band, has been accepted
C14_EndAccepted ==
  /\ Returned("validateCalculationInput")
  /\ call.input = [BaseInput EXCEPT !.mass = Num(70)]
  /\ ret.value.isValid

\* every structural check of the validator passes: four finite positive
\* fields, each inside its band (ends included), and a known species
StructurallyOK(input) ==
  /\ NumericFieldsOK(input)
  /\ \A f \in NumericFields : Ge(input[f], Band(f).lo) /\ Le(input[f], Band(f).hi)
  /\ KnownSpecies(input)

\* b^2 - 4a(c - density) for the input's species and computed density
SpeciesDiscriminant(input) ==
  LET formula == SPECIES_FORMULAS_0[input.speciesType]
  IN Sub(Mul(formula.b, formula.b),
         Mul(Mul(N4, formula.a), Sub(formula.c, ComputedDensity(input))))

\* the messages only the pre-calculation of the validator can produce
PreCalculationMessages == {ErrDensityRange, ErrDiscriminant, ErrInvalid}

\* C15: for an input that passes every structural check, a negative species
\* discriminant at the computed density makes validateCalculationInput
\* report invalid with the negative-discriminant message among its errors;
\* when a structural check has failed, no message of the pre-calculation is
\* among the errors.
C15_PreSimulation ==
  Returned("validateCalculationInput") =>
    /\ (StructurallyOK(call.input) /\ Lt(SpeciesDiscriminant(call.input), N0))
         => (~ret.value.isValid /\ ErrDiscriminant \in Messages(ret.value.errors))
    /\ ~StructurallyOK(call.input)
         => Messages(ret.value.errors) \cap PreCalculationMessages = {}

\* a 120 g egg of typical size, every field in band, has been rejected with
\* the negative-discriminant message as its only error
C15_Witness ==
  /\ Returned("validateCalculationInput")
  /\ call.input = [BaseInput EXCEPT !.mass = Num(120)]
  /\ StructurallyOK(call.input)
  /\ Lt(SpeciesDiscriminant(call.input), N0)
  /\ ~ret.value.isValid
  /\ ret.value.errors = <<ErrDiscriminant>>

\* C16: validateCalculationInput completes normally for every input record,
\* whether its fields are NaN, infinite, zero or negative and whatever its
\* species tag, and the result reports valid exactly when its list of
\* errors is empty.
C16_ValidatorTotal ==
  Returned("validateCalculationInput") =>
    /\ ret.ok
    /\ ret.msg = <<>>
    /\ ret.value.isValid \in BOOLEAN
    /\ ret.value.isValid <=> (ret.value.errors = <<>>)

\* a NaN length with a tag that is no species has been answered, not
\* raised: invalid, with the length and the species message
C16_Witness ==
  /\ Returned("validateCalculationInput")
  /\ call.input = [BaseInput EXCEPT !.length = NaN, !.speciesType = "invalid"]
  /\ ret.ok
  /\ ~ret.value.isValid
  /\ ret.value.errors = <<ErrLength, ErrSpecies>>

\* C17: a batch with a failing element fails, it has processed the elements
\* up to and including the first failing one and none after it, and the
\* completion carries that element's failure and no result; a batch whose
\* elements all succeed returns one result per input, in input order, each
\* what calculateSkuaTBH returns for that input.
C17_NoPartialResults ==
  Returned("calculateBatchTBH") =>
    LET failing == FailingIndices(call.inputs)
    IN IF failing = {}
       THEN /\ ret.ok
            /\ Len(ret.value) = Len(call.inputs)
            /\ \A i \in DOMAIN call.inputs :
                 ret.value[i] = calculateSkuaTBH(call.inputs[i]).value
       ELSE /\ ~ret.ok
            /\ ret.value = NaN
            /\ \A i \in failing :
                 (\A j \in failing : i <= j) =>
                   /\ ret.locals.processed = i + 1
                   /\ ErrorKind(ret) = ErrorKind(calculateSkuaTBH(call.inputs[i + 1]))

\* a batch of three whose second element is the only one to fail has
\* stopped after two elements and has handed back the error alone
C17_Witness ==
  /\ Returned("calculateBatchTBH")
  /\ GoodBadGood(call.inputs)
  /\ ~ret.ok
  /\ ret.locals.processed = 2
  /\ ret.value = NaN

\* a batch of three good elements, not all the same, has returned three
\* results in the order of its inputs
C17_AllGood ==
  /\ Returned("calculateBatchTBH")
  /\ Len(call.inputs) = 3
  /\ call.inputs[1] # call.inputs[3]
  /\ ret.ok
  /\ \A i \in 1..3 : ret.value[i].speciesType = call.inputs[i].speciesType

\* the arguments of a call of calculateEggVolume
VolumeCallArgs == {call.length, call.breadth, call.kv}

\* kv * length * breadth^2 / 1000
ExpectedVolume ==
  Div(Mul(Mul(call.kv, call.length), Mul(call.breadth, call.breadth)), N1000)

\* C19: calculateEggVolume returns kv * length * breadth^2 / 1000 when its
\* three arguments are all greater than 0, and fails with InvalidMeasurement,
\* returning no value, when any of the three is not greater than 0.
C19_EggVolume ==
  Returned("calculateEggVolume") =>
    IF \A x \in VolumeCallArgs : Gt(x, N0)
    THEN ret.ok /\ ret.value = ExpectedVolume
    ELSE ErrorKind(ret) = "InvalidMeasurement"

\* calculateEggVolume(NaN, 50, 0.5) has returned NaN as a volume
C19_Witness ==
  /\ Returned("calculateEggVolume")
  /\ IsNaN(call.length) /\ call.breadth = Num(50) /\ call.kv = Dec(5, 1)
  /\ ret.ok
  /\ IsNaN(ret.value)

\* C19 for arguments that are numbers: all three greater than 0 gives the
\* volume, any of them zero or negative (no argument being NaN) gives
\* InvalidMeasurement
C19_EggVolumeOfNumbers ==
  (Returned("calculateEggVolume") /\ \A x \in VolumeCallArgs : ~IsNaN(x)) =>
    IF \A x \in VolumeCallArgs : Gt(x, N0)
    THEN ret.ok /\ ret.value = ExpectedVolume
    ELSE ErrorKind(ret) = "InvalidMeasurement"

\* calculateEggVolume(70, 50, 0.5) has returned 87.5
C19_Typical ==
  /\ Returned("calculateEggVolume")
  /\ call.length = Num(70) /\ call.breadth = Num(50) /\ call.kv = Dec(5, 1)
  /\ ret.ok
  /\ ret.value = Dec(875, 1)

\* the five operations whose errors are stated to carry the offending values
RaisingOps ==
  {"calculateEggVolume", "calculateEggDensity", "calculateTBH", "roundTrip",
   "calculateSkuaTBH", "calculateBatchTBH"}

\* the numbers a failure's message holds, the position a batch puts in front
\* of its element's message left aside
CauseNumbers ==
  LET skip == IF call.op = "calculateBatchTBH" THEN 1 ELSE 0
  IN {ret.nums[i] : i \in (skip + 1)..Len(ret.nums)}

\* the numeric inputs of the call
CallNumbers ==
  CASE call.op = "calculateEggVolume" -> {call.length, call.breadth, call.kv}
    [] call.op = "calculateEggDensity" -> {call.mass, call.eggVolume}
    [] call.op = "calculateSkuaTBH" -> {call.input[f] : f \in NumericFields}
    [] call.op \in {"calculateTBH", "roundTrip"} -> {call.eggDensity}
    [] OTHER -> {}

\* the inputs that made a positive-number check fail
RejectedInputs ==
  IF ret.msg[Len(ret.msg)] \in {MsgAllPositive, MsgMassVolume, MsgInvalidDensity}
  THEN {x \in CallNumbers : Le(x, N0)}
  ELSE {}

\* C20: every failure of calculateEggVolume, calculateEggDensity,
\* calculateTBH, calculateSkuaTBH and calculateBatchTBH whose cause is a
\* number holds in its message the offending value or values: at least one
\* number, and each input that a positive-number check has rejected.
C20_ErrorsCarryValues ==
  (pc = "returned" /\ call.op \in RaisingOps /\ ~ret.ok
     /\ ErrorKind(ret) # "UnknownSpecies")
    => /\ CauseNumbers # {}
       /\ RejectedInputs \subseteq CauseNumbers

\* calculateEggVolume(0, 50, 0.5) has failed with a message that holds no
\* number at all
C20_Witness ==
  /\ Returned("calculateEggVolume")
  /\ call.length = Zero(0) /\ call.breadth = Num(50) /\ call.kv = Dec(5, 1)
  /\ ret.msg = <<MsgAllPositive>>
  /\ ret.nums = <<>>

\* the failures of the solver do hold their numbers: the density, the
\* discriminant, the roots or the dbh the message is about
C20_SolverErrorsCarryValues ==
  (SolverReturned /\ ~ret.ok /\ ErrorKind(ret) # "UnknownSpecies")
    => /\ CauseNumbers # {}
       /\ RejectedInputs \subseteq CauseNumbers
       /\ ErrorKind(ret) \in {"InvalidMeasurement", "ImplausibleMeasurement",
                              "UnsolvableFormula"}
            => call.eggDensity \in CauseNumbers
       /\ ErrorKind(ret) = "NoValidRoot" => RootsOf(ret) \subseteq CauseNumbers

\* what a call returns when it is the only call in progress
Alone(c) ==
  CASE c.op = "calculateEggVolume" -> calculateEggVolume(c.length, c.breadth, c.kv)
    [] c.op = "calculateEggDensity" -> calculateEggDensity(c.mass, c.eggVolume)
    [] c.op = "calculateTBH" -> calculateTBH(c.eggDensity, c.speciesType)
    [] c.op = "calculateConfidence"
         -> calculateConfidence(c.eggDensity, c.dbh, c.speciesType)
    [] c.op = "validateCalculationInput"
         -> Return(validateCalculationInput(c.input), NoLocals)
    [] c.op = "calculateSkuaTBH" -> calculateSkuaTBH(c.input)
    [] c.op = "calculateBatchTBH" -> calculateBatchTBH(c.inputs)

\* C18: under every interleaving of the steps of concurrent calls of
\* calculateEggVolume, calculateEggDensity, calculateTBH,
\* calculateConfidence, validateCalculationInput, calculateSkuaTBH and
\* calculateBatchTBH, the formula table and the range table are in every
\* reachable state what they were at initialization, and every call that
\* has returned has returned what it returns when run alone.
C18_ConcurrencySafe ==
  /\ SPECIES_FORMULAS = SPECIES_FORMULAS_0
  /\ SPECIES_RANGES = SPECIES_RANGES_0
  /\ \A p \in Callers : pc[p] = "returned" => ret[p] = Alone(call[p])

\* a prediction has returned its result while the other caller's batch was
\* part-way through its elements
C18_Witness ==
  \E p, q \in Callers :
    /\ pc[p] = "returned" /\ call[p].op = "calculateSkuaTBH" /\ ret[p].ok
    /\ pc[q] = "element" /\ ret[q].locals.processed = 1
    /\ ret[p] = Alone(call[p])

\* a * dbh^2 + b * dbh + c
Substitute(coefficients, dbh) ==
  Add(Add(Mul(coefficients.a, Mul(dbh, dbh)), Mul(coefficients.b, dbh)),
      coefficients.c)

\* no further apart than 0.0005
Within0005(x, y) == Le(Math_abs(Sub(x, y)), Dec(5, 4))

\* C21: for both species and every density calculateTBH succeeds for, the
\* returned dbh substituted into a*dbh^2 + b*dbh + c gives a value within
\* 0.0005 of the density; and for every result of calculateSkuaTBH, its
\* rounded tbh substituted into the coefficients it is stamped with gives a
\* value within 0.0005 of its rounded eggDensity.
C21_ReverseCalculation ==
  /\ (SolverReturned /\ ret.ok /\ call.speciesType \in SpeciesTypes)
       => Within0005(Substitute(SPECIES_FORMULAS_0[call.speciesType], ret.value),
                     call.eggDensity)
  /\ (Returned("calculateSkuaTBH") /\ ret.ok)
       => Within0005(Substitute(ret.value.formula.coefficients, ret.value.tbh),
                     ret.value.eggDensity)

\* a prediction whose tbh was changed by the rounding to two decimals has
\* returned, and its rounded tbh gives back its rounded density
C21_Witness ==
  /\ Returned("calculateSkuaTBH")
  /\ ret.ok
  /\ ret.value.tbh # ret.locals.dbh
  /\ Within0005(Substitute(ret.value.formula.coefficients, ret.value.tbh),
                ret.value.eggDensity)

\* calculateTBH(0.95, 'great') has returned a dbh that gives back 0.95
C21_SolverWitness ==
  /\ Returned("calculateTBH")
  /\ call.eggDensity = Dec(95, 2) /\ call.speciesType = "great"
  /\ ret.ok
  /\ Within0005(Substitute(SPECIES_FORMULAS_0.great, ret.value), call.eggDensity)

\* the two species' solver results for the density of the call, when the
\* call is for arctic and the solver succeeds for both
BothSpeciesSolved ==
  /\ SolverReturned /\ call.speciesType = "arctic" /\ ret.ok
  /\ calculateTBH(call.eggDensity, "great").ok

\* |arctic dbh - great dbh| for the density of the call
SpeciesGap ==
  Math_abs(Sub(ret.value, calculateTBH(call.eggDensity, "great").value))

\* C22 (amended): for every density at most 1.0 or at least 1.01 for which
\* calculateTBH succeeds for both species, the arctic and the great result
\* differ by more than 0.1 days.
C22_SpeciesDiffer ==
  (BothSpeciesSolved /\ (Le(call.eggDensity, N1) \/ Ge(call.eggDensity, Dec(101, 2))))
    => Gt(SpeciesGap, N0_1)

\* at density 0.95 both species have been solved and the results are more
\* than a day apart
C22_Witness ==
  /\ BothSpeciesSolved
  /\ call.eggDensity = Dec(95, 2)
  /\ Gt(SpeciesGap, N1)

\* C22 as first stated: for every density for which calculateTBH succeeds
\* for both species, the arctic and the great result differ by more than
\* 0.1 days.
C22_AlwaysDiffer == BothSpeciesSolved => Gt(SpeciesGap, N0_1)

\* at density 1.0065 the two species' results are less than 0.01 days apart
C22_Crossing ==
  /\ BothSpeciesSolved
  /\ call.eggDensity = Dec(10065, 4)
  /\ Lt(SpeciesGap, Dec(1, 2))

(***************************************************************************)
(* Exact arithmetic on finite numbers, for stating where the ends of a      *)
(* formula's range lie: a value is a sign, a natural and a binary           *)
(* exponent, as a number is, and nothing is rounded.                        *)
(***************************************************************************)
ExactProduct(x, y) ==
  [k |-> "fin", s |-> (x.s + y.s) % 2, m |-> NMul(x.m, y.m), e |-> x.e + y.e]

ExactSum(x, y) ==
  LET e == IMin(x.e, y.e)
      nx == NShl(x.m, x.e - e)
      ny == NShl(y.m, y.e - e)
      c == NCmp(nx, ny)
  IN IF x.s = y.s THEN [k |-> "fin", s |-> x.s, m |-> NAdd(nx, ny), e |-> e]
     ELSE IF c >= 0 THEN [k |-> "fin", s |-> x.s, m |-> NSub(nx, ny), e |-> e]
     ELSE [k |-> "fin", s |-> y.s, m |-> NSub(ny, nx), e |-> e]

ExactDifference(x, y) == ExactSum(x, [y EXCEPT !.s = 1 - y.s])

\* -1, 0 or 1
ExactSign(x) == IF NTrim(x.m) = <<>> THEN 0 ELSE IF x.s = 1 THEN 0 - 1 ELSE 1

\* the sign of (a*35^2 + b*35 + c) - d, with nothing rounded
UpperEndMinus(d, f) ==
  ExactSign(ExactDifference(
    ExactSum(ExactSum(ExactProduct(f.a, Num(35 * 35)), ExactProduct(f.b, N35)), f.c),
    d))

\* the sign of b^2 - 4a(c - d), with nothing rounded: negative exactly when
\* d is above the parabola's maximum c - b^2/(4a)
ExactDiscriminantSign(d, f) ==
  ExactSign(ExactDifference(
    ExactProduct(f.b, f.b),
    ExactProduct(ExactProduct(N4, f.a), ExactDifference(f.c, d))))

\* where a density d in (0, 2.0] lies for the formula f
WindowPart(d, f) ==
  IF ExactSign(ExactDifference(d, f.c)) >= 0 /\ UpperEndMinus(d, f) >= 0
  THEN "inside"
  ELSE IF ExactDiscriminantSign(d, f) >= 0 THEN "noRoot"
  ELSE "aboveMaximum"

\* a call of the solver for a known species with a density in (0, 2.0]
SolverCallInRange ==
  /\ SolverReturned
  /\ call.speciesType \in SpeciesTypes
  /\ Number_isFinite(call.eggDensity)
  /\ Gt(call.eggDensity, N0) /\ Le(call.eggDensity, N2)

\* C23: for each species, calculateTBH succeeds exactly for the densities d
\* with c <= d <= a*35^2 + b*35 + c; for 0 < d < c and for d above that
\* upper end up to the maximum c - b^2/(4a) of the parabola it fails with
\* NoValidRoot; for d above the maximum and at most 2.0 it fails with
\* UnsolvableFormula.
C23_SolvableWindow ==
  SolverCallInRange =>
    LET part == WindowPart(call.eggDensity, SPECIES_FORMULAS_0[call.speciesType])
    IN /\ ret.ok <=> part = "inside"
       /\ part = "noRoot" => ErrorKind(ret) = "NoValidRoot"
       /\ part = "aboveMaximum" => ErrorKind(ret) = "UnsolvableFormula"

\* the number next above the great formula's value at 35 days has been
\* refused for want of a root, the root computed being above 35
C23_Witness ==
  /\ Returned("calculateTBH")
  /\ call.speciesType = "great"
  /\ call.eggDensity \in Neighbours(FormulaDensity(N35, "great"))
  /\ WindowPart(call.eggDensity, SPECIES_FORMULAS_0.great) = "noRoot"
  /\ ErrorKind(ret) = "NoValidRoot"
  /\ Gt(ret.locals.root1, N35)

\* 0.86 has failed with NoValidRoot and 1.2 with UnsolvableFormula
C23_TestValues ==
  /\ Returned("calculateTBH")
  /\ call.speciesType = "arctic"
  /\ \/ call.eggDensity = Dec(86, 2) /\ ErrorKind(ret) = "NoValidRoot"
     \/ call.eggDensity = Dec(12, 1) /\ ErrorKind(ret) = "UnsolvableFormula"

\* a call of the solver for a known species that got as far as the roots
RootsComputed ==
  /\ SolverReturned
  /\ call.speciesType \in SpeciesTypes
  /\ RootsOf(ret) # {}

\* C24: for both species and every density for which the roots are computed,
\* at most one of the two roots lies in [0,35], so the roots that survive
\* the filter are never two, and the dbh returned is always
\* root1 = (-b + sqrt(discriminant)) / (2a); for every density that is a
\* number root2 is above 35 (for a NaN density both roots are NaN and lie in
\* no interval).
C24_SingleRoot ==
  RootsComputed =>
    /\ Len(ret.locals.validRoots) <= 1
    /\ ~(InRange0to35(ret.locals.root1) /\ InRange0to35(ret.locals.root2))
    /\ ~IsNaN(call.eggDensity) => Gt(ret.locals.root2, N35)
    /\ IsNaN(call.eggDensity) => (IsNaN(ret.locals.root1) /\ IsNaN(ret.locals.root2))
    /\ ret.ok => ret.value = ret.locals.root1

\* the solver has returned root1, the only root in [0,35], root2 being
\* above 35
C24_Witness ==
  /\ RootsComputed
  /\ ret.ok
  /\ ret.locals.validRoots = <<ret.locals.root1>>
  /\ ret.value = ret.locals.root1
  /\ Gt(ret.locals.root2, N35)

\* C25: no call of calculateTBH, calculateSkuaTBH or calculateBatchTBH,
\* whatever the density and the species tag, fails in the final check of the
\* selected root (dbh < 0 or dbh > 100): the failure ImplausibleResult is
\* never raised.
C25_NoImplausibleResult ==
  (pc = "returned"
     /\ call.op \in {"calculateTBH", "roundTrip", "calculateSkuaTBH", "calculateBatchTBH"})
    => /\ ErrorKind(ret) # "ImplausibleResult"
       /\ \A i \in DOMAIN ret.msg : ret.msg[i] \notin {MsgNegativeDBH, MsgHighDBH}

\* the density c of the great formula has been solved: the selected root is
\* zero, it has passed the filter and the final check, and has been returned
C25_Witness ==
  /\ Returned("calculateTBH")
  /\ call.speciesType = "great"
  /\ call.eggDensity = SPECIES_FORMULAS_0.great.c
  /\ ret.ok
  /\ ret.locals.validRoots = <<ret.value>>
  /\ IsZero(ret.value)

\* the density range of the scorer for a species, ends included
InDensityRange(eggDensity, speciesType) ==
  /\ Ge(eggDensity, SPECIES_RANGES_0[speciesType].density.min)
  /\ Le(eggDensity, SPECIES_RANGES_0[speciesType].density.max)

\* what is stated of a result and of the locals it was computed from
ConfidenceAtLeast048(result, locals) ==
  /\ Ge(result.confidence, Dec(48, 2))
  /\ Ge(locals.confidence, Dec(48, 2))
  /\ InRange0to35(locals.dbh)
  /\ result.speciesType = "great"
       => /\ InDensityRange(locals.eggDensity, "great")
          /\ Ge(locals.confidence, Dec(72, 2))

\* C26: in every result of calculateSkuaTBH, alone or in a batch, the
\* confidence is at least 0.48; the dbh given to the scorer is within
\* [0,35], so neither the 0.7 factor applies nor is the floor 0.1 returned;
\* and for great the density given to the scorer is inside the species'
\* density range, so the 0.6 factor does not apply.
C26_ConfidenceFloor ==
  /\ (Returned("calculateSkuaTBH") /\ ret.ok)
       => ConfidenceAtLeast048(ret.value, ret.locals)
  /\ (Returned("calculateBatchTBH") /\ ret.ok)
       => \A i \in DOMAIN ret.value :
            ConfidenceAtLeast048(ret.value[i], calculateSkuaTBH(call.inputs[i]).locals)

\* an arctic egg of density 1.08 has been predicted at more than 30 days
\* with a confidence of exactly 0.48, the product of the 0.6 and 0.8 factors
C26_Witness ==
  /\ Returned("calculateSkuaTBH")
  /\ call.input = [BaseInput EXCEPT !.mass = Num(108)]
  /\ ret.ok
  /\ Gt(ret.locals.dbh, N30)
  /\ ~InDensityRange(ret.locals.eggDensity, "arctic")
  /\ ret.value.confidence = Dec(48, 2)

\* C27: for every input validateCalculationInput accepts, calculateSkuaTBH
\* either returns a result or fails with NoValidRoot: it reaches the solver
\* with a density in [0.5,1.5] and fails with none of InvalidMeasurement,
\* ImplausibleMeasurement, UnknownSpecies, UnsolvableFormula and
\* ImplausibleResult.
C27_ValidatedOutcomes ==
  (Returned("calculateSkuaTBH") /\ validateCalculationInput(call.input).isValid)
    => /\ ErrorKind(ret) \in {"none", "NoValidRoot"}
       /\ "solver" \in Messages(ret.locals.stages)
       /\ Ge(ret.locals.eggDensity, N0_5) /\ Le(ret.locals.eggDensity, N1_5)
       /\ ~Lt(SpeciesDiscriminant(call.input), N0)

\* an arctic egg of 110 g (density 1.10, between the formula's value at 35
\* days and its maximum) is accepted by the validator, and its prediction
\* has failed with NoValidRoot
C27_Witness ==
  /\ Returned("calculateSkuaTBH")
  /\ call.input = [BaseInput EXCEPT !.mass = Num(110)]
  /\ validateCalculationInput(call.input).isValid
  /\ ErrorKind(ret) = "NoValidRoot"
  /\ ret.locals.eggDensity = Dec(11, 1)

\* an accepted input has been given a result
C27_Result ==
  /\ Returned("calculateSkuaTBH")
  /\ call.input = [BaseInput EXCEPT !.length = N85]
  /\ validateCalculationInput(call.input).isValid
  /\ ret.ok

\* C28: the values getFormulaCoefficients and getSpeciesRanges hand out are
\* isolated from the engine's tables: whatever the caller assigns to them,
\* both tables stay what they were at initialization, and later calls of
\* calculateTBH, calculateConfidence, validateCalculationInput and
\* calculateSkuaTBH return what they returned before: a dbh that gives back
\* the density under the compiled-in coefficients, the reference score, a
\* result stamped with the compiled-in coefficients.
C28_HandedOutIsolated ==
  /\ SPECIES_FORMULAS = SPECIES_FORMULAS_0
  /\ SPECIES_RANGES = SPECIES_RANGES_0
  /\ (Returned("calculateTBH") /\ ret.ok /\ call.speciesType \in SpeciesTypes)
       => Within0005(Substitute(SPECIES_FORMULAS_0[call.speciesType], ret.value),
                     call.eggDensity)
  /\ (Returned("calculateConfidence") /\ ~IsNaN(call.eggDensity) /\ ~IsNaN(call.dbh))
       => Close(ret.value,
                ReferenceConfidence(call.eggDensity, call.dbh, call.speciesType))
  /\ (Returned("calculateSkuaTBH") /\ ret.ok)
       => /\ ret.value.formula.coefficients.a = SPECIES_FORMULAS_0[call.input.speciesType].a
          /\ Within0005(Substitute(SPECIES_FORMULAS_0[call.input.speciesType],
                                   ret.value.tbh),
                        ret.value.eggDensity)

\* after the caller wrote -0.0002 to the a coefficient of the arctic member
\* it was handed, calculateTBH(0.95, 'arctic') has returned a dbh (about
\* 12.96 days, not 9.90) that does not give back 0.95 under the compiled-in
\* arctic formula
C28_Witness ==
  /\ Returned("calculateTBH")
  /\ call.eggDensity = Dec(95, 2) /\ call.speciesType = "arctic"
  /\ SPECIES_FORMULAS.arctic.a = SPECIES_FORMULAS_steep.arctic.a
  /\ SPECIES_FORMULAS.great = SPECIES_FORMULAS_0.great
  /\ ret.ok
  /\ Gt(ret.value, Num(12)) /\ Lt(ret.value, Num(13))
  /\ ~Within0005(Substitute(SPECIES_FORMULAS_0.arctic, ret.value), call.eggDensity)

\* after the caller wrote 0.9 to density.max of the ranges entry it was
\* handed for great, calculateConfidence(0.95, 10, 'great') has returned 0.6
C28_RangesWitness ==
  /\ Returned("calculateConfidence")
  /\ call.eggDensity = Dec(95, 2) /\ call.dbh = Num(10) /\ call.speciesType = "great"
  /\ SPECIES_RANGES.great.density.max = N0_9
  /\ Close(ret.value, N0_6)

\* replacing a member of the copy getFormulaCoefficients returned leaves the
\* formula table alone
C28_CopyReplaced ==
  /\ Returned("getFormulaCoefficients")
  /\ \E t \in DOMAIN ret.value : "own" \in DOMAIN ret.value[t]
  /\ SPECIES_FORMULAS = SPECIES_FORMULAS_0

\* a request of POST /api/measurements is being served or has been answered
Serving == call.op = "POST"

Responded == Serving /\ pc = "returned"

FailedValidation == Serving /\ ret.errors # <<>>

EngineCalled == "ok" \in DOMAIN ret.engine

PublishedEvents == {ret.events[i].event : i \in DOMAIN ret.events}

\* C29: a request that fails input validation is answered 400 after exactly
\* one publish, of measurement.rejected; none of the other six events is
\* published for it and the prediction engine is never invoked.
C29_RejectedOnly ==
  /\ FailedValidation
       => /\ PublishedEvents \subseteq {"measurement.rejected"}
          /\ ~EngineCalled
  /\ (FailedValidation /\ Responded)
       => /\ Len(ret.events) = 1
          /\ ret.events[1].event = "measurement.rejected"
          /\ ret.status = 400

\* what does hold of a request that fails validation: no event but
\* measurement.rejected, one publish at most, no engine call, and 400
\* whenever that publish succeeded
C29_NothingElse ==
  FailedValidation
    => /\ PublishedEvents \subseteq {"measurement.rejected"}
       /\ Len(ret.events) <= 1
       /\ ~EngineCalled
       /\ (Responded /\ ret.events[1].outcome = "ok") => ret.status = 400

\* part_007 has answered a request whose mass (200 g) failed validation
\* with 200 and success: true, the publish of measurement.rejected having
\* timed out
C29_Witness ==
  /\ Responded /\ FailedValidation
  /\ call.version = "part_007"
  /\ call.body.measurements.mass = Num(200)
  /\ ret.events = <<[event |-> "measurement.rejected", outcome |-> "timeout"]>>
  /\ ret.status = 200 /\ ret.success

\* route.ts has answered such a request with 500, the publish having raised
C29_Witness500 ==
  /\ Responded /\ FailedValidation
  /\ call.version = "route.ts"
  /\ ret.events = <<[event |-> "measurement.rejected", outcome |-> "error"]>>
  /\ ret.status = 500

\* the case the claim describes: the publish succeeded and the answer is 400
C29_Witness400 ==
  /\ Responded /\ FailedValidation
  /\ ret.events = <<[event |-> "measurement.rejected", outcome |-> "ok"]>>
  /\ ret.status = 400 /\ ~EngineCalled

\* C30: prediction.failed is published for a request only if its
\* calculateSkuaTBH call raised, whatever the outcomes of the publishes;
\* prediction.calculated and prediction.failed are never both published for
\* one request (one predictionId).
C30_FailedOnlyIfEngineRaised ==
  Serving
    => /\ "prediction.failed" \in PublishedEvents
            => (EngineCalled /\ ~ret.engine.ok)
       /\ ~({"prediction.calculated", "prediction.failed"} \subseteq PublishedEvents)

\* the engine returned a prediction for the typical egg, the publish of
\* prediction.calculated raised an error that is no timeout, and the handler
\* has published prediction.failed and answered 500
C30_Witness ==
  /\ Responded
  /\ EngineCalled /\ ret.engine.ok
  /\ call.body.measurements.mass = Num(95) /\ call.body.speciesType = "arctic"
  /\ Len(ret.events) >= 2
  /\ ret.events[Len(ret.events) - 1] = [event |-> "prediction.calculated", outcome |-> "error"]
  /\ ret.events[Len(ret.events)] = [event |-> "prediction.failed", outcome |-> "ok"]
  /\ ret.status = 500

\* what does hold: prediction.failed follows an engine call that raised or a
\* publish of prediction.calculated that raised an error other than a
\* timeout, and a request that published prediction.calculated successfully
\* or with a timeout never publishes prediction.failed
C30_FailedCauses ==
  (Serving /\ "prediction.failed" \in PublishedEvents)
    => /\ EngineCalled
       /\ \/ ~ret.engine.ok
          \/ [event |-> "prediction.calculated", outcome |-> "error"]
               \in {ret.events[i] : i \in DOMAIN ret.events}
       /\ \A i \in DOMAIN ret.events :
            ret.events[i].event = "prediction.calculated"
              => ret.events[i].outcome = "error"

\* the engine raised (mass 84 g: density 0.84) and prediction.failed was
\* published without prediction.calculated
C30_EngineRaised ==
  /\ Responded
  /\ EngineCalled /\ ~ret.engine.ok
  /\ "prediction.failed" \in PublishedEvents
  /\ "prediction.calculated" \notin PublishedEvents
  /\ ret.status = 500

====
